---- MODULE Spec2Model ----
(***************************************************************************)
(* A model of api_docs_generator.py: the ProtoParser (brace matcher,       *)
(* extractor, registry, qualification) and the HTMLDocumentationGenerator  *)
(* (reference graph, example payloads, curl/HTTP examples, tables).        *)
(*                                                                         *)
(* Strings.  An identifier, a path or an option text is a TLC string; its  *)
(* characters are Chars(s), and every character-level operation of the     *)
(* code is computed on them.  A dotted name (a type name, a registry key,  *)
(* a package) is the sequence of its dot-separated segments, so            *)
(* "google.protobuf.Any" is <<"google", "protobuf", "Any">>, the simple    *)
(* name "Any" is <<"Any">> and no package is <<>>.  The patterns of the    *)
(* extractor admit only \w+ segments, which hold no dot.                   *)
(*                                                                         *)
(* Python dicts are insertion-ordered sequences of [k, v] entries with     *)
(* unique keys.  Objects carry an oid given at construction: two           *)
(* references are the identical object exactly when the oids agree.        *)
(***************************************************************************)
EXTENDS Integers, Sequences, FiniteSets, TLC

VARIABLES
    \* ProtoParser._find_matching_brace: arguments, loop state, return value
    content, start_pos, scan_i, brace_count, brace_ret, brace_pc,
    \* the schema files on disk: path -> file, and the paths among them
    \* that open() fails on
    fs, unreadable,
    \* main(): args.service ("" when the option is not given), position, the
    \* exit status (<<>> while the process runs), the files written
    \* (path -> lines), and the warnings and errors printed (the progress
    \* lines are not recorded)
    args_service, main_pc, exit_status, output_files, console,
    \* ProtoParser: self.messages, self.services, self.enums, self.packages
    messages, services, enums, packages,
    \* the oid the next constructed entity gets
    next_oid,
    \* history: the parse_file calls made, <<[path, first_oid]>>
    ingest_log,
    \* parse_repository: position, and the files os.walk has yet to yield
    repo_pc, walk_todo,
    \* history: the mappings as they were before _build_qualified_names was
    \* run again, and how often it was run again
    pre_messages, pre_enums, requalified,
    \* HTMLDocumentationGenerator._collect_referenced_types: position, the
    \* method signature types yet to seed from, the pending calls of
    \* collect_from_message, the local referenced_types and
    \* self._referenced_types_cache
    graph_pc, seed_todo, call_stack, referenced_types, referenced_types_cache,
    \* the number of the HTMLDocumentationGenerator in use (the generators
    \* constructed so far), and history: what the calls of
    \* _collect_referenced_types returned, <<[generator, returned, computed,
    \* ingested]>>, computed telling whether the call ran the collection and
    \* ingested how many parse_file calls had been made by then
    generator, collect_calls,
    \* a call of _generate_example_json: position, the pending frames of
    \* _generate_example_json and _get_nested_example_value (the innermost
    \* last), the message it was called for and what it returned
    example_pc, example_stack, example_message, example_result,
    \* HTMLDocumentationGenerator.generate_html: position, the services and
    \* the methods of the current service yet to render, and the lines of
    \* the document so far
    render_pc, service_todo, method_todo, doc,
    \* history: the methods rendered, <<[service, method, first, last]>>,
    \* first and last being the positions of the method's lines in doc
    rendered

braceVars == <<content, start_pos, scan_i, brace_count, brace_ret, brace_pc>>
registryVars == <<messages, services, enums, packages, next_oid>>
repoVars == <<repo_pc, walk_todo, pre_messages, pre_enums, requalified>>
graphVars == <<graph_pc, seed_todo, call_stack, referenced_types, referenced_types_cache,
               generator, collect_calls>>
renderVars == <<render_pc, service_todo, method_todo, doc, rendered>>
mainVars == <<args_service, main_pc, exit_status, output_files>>
exampleVars == <<example_pc, example_stack, example_message, example_result>>
genVars == <<graphVars, renderVars, mainVars, exampleVars>>
vars == <<braceVars, fs, unreadable, registryVars, ingest_log, repoVars, genVars, console>>

-----------------------------------------------------------------------------
(* Bounds of the model *)

\* characters of a text given to _find_matching_brace
MaxTextLen == 5

\* blocks per generated schema file
MaxDecls == 2

\* direct parse_file calls in one run
MaxIngest == 3

\* re-runs of _build_qualified_names after parse_repository
MaxRequalify == 1


\* calls of _collect_referenced_types in one run, and generators
\* constructed on one parser
MaxCalls == 4
MaxGenerators == 2

\* the interpreter's recursion limit (sys.getrecursionlimit(), 1000 unless
\* changed), in frames, scaled down
MaxFrames == 12
-----------------------------------------------------------------------------
(* Sequence helpers *)

Range(s) == { s[i] : i \in DOMAIN s }

MinOf(S) == CHOOSE x \in S : \A y \in S : x <= y

MaxOf(S) == CHOOSE x \in S : \A y \in S : y <= x

\* the n-th smallest member of a set of integers
Nth(S, n) == CHOOSE x \in S : Cardinality({ y \in S : y < x }) = n - 1

\* All sequences over S of length 0..n
SeqsUpTo(S, n) == UNION { [1..k -> S] : k \in 0..n }

-----------------------------------------------------------------------------
(* Python str operations, on sequences of characters *)

\* s.startswith(p)
StartsWith(s, p) == Len(s) >= Len(p) /\ SubSeq(s, 1, Len(p)) = p

\* s.endswith(p)
EndsWith(s, p) == Len(s) >= Len(p) /\ SubSeq(s, Len(s) - Len(p) + 1, Len(s)) = p

\* sub in s
Contains(sub, s) ==
    \E i \in 1 .. Len(s) - Len(sub) + 1 : SubSeq(s, i, i + Len(sub) - 1) = sub

UpperLetters == <<"A","B","C","D","E","F","G","H","I","J","K","L","M",
                  "N","O","P","Q","R","S","T","U","V","W","X","Y","Z">>
LowerLetters == <<"a","b","c","d","e","f","g","h","i","j","k","l","m",
                  "n","o","p","q","r","s","t","u","v","w","x","y","z">>

LowerChar(c) ==
    IF \E i \in DOMAIN UpperLetters : UpperLetters[i] = c
      THEN LowerLetters[CHOOSE i \in DOMAIN UpperLetters : UpperLetters[i] = c]
      ELSE c

UpperChar(c) ==
    IF \E i \in DOMAIN LowerLetters : LowerLetters[i] = c
      THEN UpperLetters[CHOOSE i \in DOMAIN LowerLetters : LowerLetters[i] = c]
      ELSE c

\* s.lower(), s.upper()
Lower(s) == [i \in DOMAIN s |-> LowerChar(s[i])]
Upper(s) == [i \in DOMAIN s |-> UpperChar(s[i])]

-----------------------------------------------------------------------------
(* The spelling of every string of the model.  TLC strings are atomic, so   *)
(* the character-level operations of the code (in, startswith, endswith,   *)
(* lower, upper, replace, html.escape) work on Chars(s).                    *)

Spelling ==
    << <<"string", <<"s", "t", "r", "i", "n", "g">>>>,
       <<"int32", <<"i", "n", "t", "3", "2">>>>,
       <<"int64", <<"i", "n", "t", "6", "4">>>>,
       <<"bool", <<"b", "o", "o", "l">>>>,
       <<"double", <<"d", "o", "u", "b", "l", "e">>>>,
       <<"float", <<"f", "l", "o", "a", "t">>>>,
       <<"bytes", <<"b", "y", "t", "e", "s">>>>,
       <<"repeated", <<"r", "e", "p", "e", "a", "t", "e", "d">>>>,
       <<"optional", <<"o", "p", "t", "i", "o", "n", "a", "l">>>>,
       <<"required", <<"r", "e", "q", "u", "i", "r", "e", "d">>>>,
       <<"get", <<"g", "e", "t">>>>,
       <<"post", <<"p", "o", "s", "t">>>>,
       <<"put", <<"p", "u", "t">>>>,
       <<"delete", <<"d", "e", "l", "e", "t", "e">>>>,
       <<"patch", <<"p", "a", "t", "c", "h">>>>,
       <<"body", <<"b", "o", "d", "y">>>>,
       <<"Timestamp", <<"T", "i", "m", "e", "s", "t", "a", "m", "p">>>>,
       <<"Duration", <<"D", "u", "r", "a", "t", "i", "o", "n">>>>,
       <<"Any", <<"A", "n", "y">>>>,
       <<"Payload", <<"P", "a", "y", "l", "o", "a", "d">>>>,
       <<"seconds", <<"s", "e", "c", "o", "n", "d", "s">>>>,
       <<"nanos", <<"n", "a", "n", "o", "s">>>>,
       <<"type_url", <<"t", "y", "p", "e", "_", "u", "r", "l">>>>,
       <<"value", <<"v", "a", "l", "u", "e">>>>,
       <<"metadata", <<"m", "e", "t", "a", "d", "a", "t", "a">>>>,
       <<"data", <<"d", "a", "t", "a">>>>,
       <<"map<string,bytes>", <<"m", "a", "p", "<", "s", "t", "r", "i", "n", "g", ",", "b", "y", "t", "e", "s", ">">>>>,
       <<"google/protobuf/timestamp.proto", <<"g", "o", "o", "g", "l", "e", "/", "p", "r", "o", "t", "o", "b", "u", "f", "/", "t", "i", "m", "e", "s", "t", "a", "m", "p", ".", "p", "r", "o", "t", "o">>>>,
       <<"google/protobuf/duration.proto", <<"g", "o", "o", "g", "l", "e", "/", "p", "r", "o", "t", "o", "b", "u", "f", "/", "d", "u", "r", "a", "t", "i", "o", "n", ".", "p", "r", "o", "t", "o">>>>,
       <<"google/protobuf/any.proto", <<"g", "o", "o", "g", "l", "e", "/", "p", "r", "o", "t", "o", "b", "u", "f", "/", "a", "n", "y", ".", "p", "r", "o", "t", "o">>>>,
       <<"temporal/api/common/v1/message.proto", <<"t", "e", "m", "p", "o", "r", "a", "l", "/", "a", "p", "i", "/", "c", "o", "m", "m", "o", "n", "/", "v", "1", "/", "m", "e", "s", "s", "a", "g", "e", ".", "p", "r", "o", "t", "o">>>>,
       <<"google/protobuf/", <<"g", "o", "o", "g", "l", "e", "/", "p", "r", "o", "t", "o", "b", "u", "f", "/">>>>,
       <<"temporal/api/common/", <<"t", "e", "m", "p", "o", "r", "a", "l", "/", "a", "p", "i", "/", "c", "o", "m", "m", "o", "n", "/">>>>,
       <<"cloudservice", <<"c", "l", "o", "u", "d", "s", "e", "r", "v", "i", "c", "e">>>>,
       <<"A Timestamp represents a point in time independent of any time zone or local calendar, encoded as a count of seconds and fractions of seconds at nanosecond resolution.", <<"A", " ", "T", "i", "m", "e", "s", "t", "a", "m", "p", " ", "r", "e", "p", "r", "e", "s", "e", "n", "t", "s", " ", "a", " ", "p", "o", "i", "n", "t", " ", "i", "n", " ", "t", "i", "m", "e", " ", "i", "n", "d", "e", "p", "e", "n", "d", "e", "n", "t", " ", "o", "f", " ", "a", "n", "y", " ", "t", "i", "m", "e", " ", "z", "o", "n", "e", " ", "o", "r", " ", "l", "o", "c", "a", "l", " ", "c", "a", "l", "e", "n", "d", "a", "r", ",", " ", "e", "n", "c", "o", "d", "e", "d", " ", "a", "s", " ", "a", " ", "c", "o", "u", "n", "t", " ", "o", "f", " ", "s", "e", "c", "o", "n", "d", "s", " ", "a", "n", "d", " ", "f", "r", "a", "c", "t", "i", "o", "n", "s", " ", "o", "f", " ", "s", "e", "c", "o", "n", "d", "s", " ", "a", "t", " ", "n", "a", "n", "o", "s", "e", "c", "o", "n", "d", " ", "r", "e", "s", "o", "l", "u", "t", "i", "o", "n", ".">>>>,
       <<"Represents seconds of UTC time since Unix epoch 1970-01-01T00:00:00Z.", <<"R", "e", "p", "r", "e", "s", "e", "n", "t", "s", " ", "s", "e", "c", "o", "n", "d", "s", " ", "o", "f", " ", "U", "T", "C", " ", "t", "i", "m", "e", " ", "s", "i", "n", "c", "e", " ", "U", "n", "i", "x", " ", "e", "p", "o", "c", "h", " ", "1", "9", "7", "0", "-", "0", "1", "-", "0", "1", "T", "0", "0", ":", "0", "0", ":", "0", "0", "Z", ".">>>>,
       <<"Non-negative fractions of a second at nanosecond resolution.", <<"N", "o", "n", "-", "n", "e", "g", "a", "t", "i", "v", "e", " ", "f", "r", "a", "c", "t", "i", "o", "n", "s", " ", "o", "f", " ", "a", " ", "s", "e", "c", "o", "n", "d", " ", "a", "t", " ", "n", "a", "n", "o", "s", "e", "c", "o", "n", "d", " ", "r", "e", "s", "o", "l", "u", "t", "i", "o", "n", ".">>>>,
       <<"A Duration represents a signed, fixed-length span of time represented as a count of seconds and fractions of seconds at nanosecond resolution.", <<"A", " ", "D", "u", "r", "a", "t", "i", "o", "n", " ", "r", "e", "p", "r", "e", "s", "e", "n", "t", "s", " ", "a", " ", "s", "i", "g", "n", "e", "d", ",", " ", "f", "i", "x", "e", "d", "-", "l", "e", "n", "g", "t", "h", " ", "s", "p", "a", "n", " ", "o", "f", " ", "t", "i", "m", "e", " ", "r", "e", "p", "r", "e", "s", "e", "n", "t", "e", "d", " ", "a", "s", " ", "a", " ", "c", "o", "u", "n", "t", " ", "o", "f", " ", "s", "e", "c", "o", "n", "d", "s", " ", "a", "n", "d", " ", "f", "r", "a", "c", "t", "i", "o", "n", "s", " ", "o", "f", " ", "s", "e", "c", "o", "n", "d", "s", " ", "a", "t", " ", "n", "a", "n", "o", "s", "e", "c", "o", "n", "d", " ", "r", "e", "s", "o", "l", "u", "t", "i", "o", "n", ".">>>>,
       <<"Signed seconds of the span of time.", <<"S", "i", "g", "n", "e", "d", " ", "s", "e", "c", "o", "n", "d", "s", " ", "o", "f", " ", "t", "h", "e", " ", "s", "p", "a", "n", " ", "o", "f", " ", "t", "i", "m", "e", ".">>>>,
       <<"Signed fractions of a second at nanosecond resolution of the span of time.", <<"S", "i", "g", "n", "e", "d", " ", "f", "r", "a", "c", "t", "i", "o", "n", "s", " ", "o", "f", " ", "a", " ", "s", "e", "c", "o", "n", "d", " ", "a", "t", " ", "n", "a", "n", "o", "s", "e", "c", "o", "n", "d", " ", "r", "e", "s", "o", "l", "u", "t", "i", "o", "n", " ", "o", "f", " ", "t", "h", "e", " ", "s", "p", "a", "n", " ", "o", "f", " ", "t", "i", "m", "e", ".">>>>,
       <<"Any contains an arbitrary serialized protocol buffer message along with a URL that describes the type of the serialized message.", <<"A", "n", "y", " ", "c", "o", "n", "t", "a", "i", "n", "s", " ", "a", "n", " ", "a", "r", "b", "i", "t", "r", "a", "r", "y", " ", "s", "e", "r", "i", "a", "l", "i", "z", "e", "d", " ", "p", "r", "o", "t", "o", "c", "o", "l", " ", "b", "u", "f", "f", "e", "r", " ", "m", "e", "s", "s", "a", "g", "e", " ", "a", "l", "o", "n", "g", " ", "w", "i", "t", "h", " ", "a", " ", "U", "R", "L", " ", "t", "h", "a", "t", " ", "d", "e", "s", "c", "r", "i", "b", "e", "s", " ", "t", "h", "e", " ", "t", "y", "p", "e", " ", "o", "f", " ", "t", "h", "e", " ", "s", "e", "r", "i", "a", "l", "i", "z", "e", "d", " ", "m", "e", "s", "s", "a", "g", "e", ".">>>>,
       <<"A URL/resource name that uniquely identifies the type of the serialized protocol buffer message.", <<"A", " ", "U", "R", "L", "/", "r", "e", "s", "o", "u", "r", "c", "e", " ", "n", "a", "m", "e", " ", "t", "h", "a", "t", " ", "u", "n", "i", "q", "u", "e", "l", "y", " ", "i", "d", "e", "n", "t", "i", "f", "i", "e", "s", " ", "t", "h", "e", " ", "t", "y", "p", "e", " ", "o", "f", " ", "t", "h", "e", " ", "s", "e", "r", "i", "a", "l", "i", "z", "e", "d", " ", "p", "r", "o", "t", "o", "c", "o", "l", " ", "b", "u", "f", "f", "e", "r", " ", "m", "e", "s", "s", "a", "g", "e", ".">>>>,
       <<"Must be a valid serialized protocol buffer of the above specified type.", <<"M", "u", "s", "t", " ", "b", "e", " ", "a", " ", "v", "a", "l", "i", "d", " ", "s", "e", "r", "i", "a", "l", "i", "z", "e", "d", " ", "p", "r", "o", "t", "o", "c", "o", "l", " ", "b", "u", "f", "f", "e", "r", " ", "o", "f", " ", "t", "h", "e", " ", "a", "b", "o", "v", "e", " ", "s", "p", "e", "c", "i", "f", "i", "e", "d", " ", "t", "y", "p", "e", ".">>>>,
       <<"Payload is used to serialize/deserialize data that is passed to/from activity/workflow implementations that are language agnostic.", <<"P", "a", "y", "l", "o", "a", "d", " ", "i", "s", " ", "u", "s", "e", "d", " ", "t", "o", " ", "s", "e", "r", "i", "a", "l", "i", "z", "e", "/", "d", "e", "s", "e", "r", "i", "a", "l", "i", "z", "e", " ", "d", "a", "t", "a", " ", "t", "h", "a", "t", " ", "i", "s", " ", "p", "a", "s", "s", "e", "d", " ", "t", "o", "/", "f", "r", "o", "m", " ", "a", "c", "t", "i", "v", "i", "t", "y", "/", "w", "o", "r", "k", "f", "l", "o", "w", " ", "i", "m", "p", "l", "e", "m", "e", "n", "t", "a", "t", "i", "o", "n", "s", " ", "t", "h", "a", "t", " ", "a", "r", "e", " ", "l", "a", "n", "g", "u", "a", "g", "e", " ", "a", "g", "n", "o", "s", "t", "i", "c", ".">>>>,
       <<"Metadata contains additional context information for this payload.", <<"M", "e", "t", "a", "d", "a", "t", "a", " ", "c", "o", "n", "t", "a", "i", "n", "s", " ", "a", "d", "d", "i", "t", "i", "o", "n", "a", "l", " ", "c", "o", "n", "t", "e", "x", "t", " ", "i", "n", "f", "o", "r", "m", "a", "t", "i", "o", "n", " ", "f", "o", "r", " ", "t", "h", "i", "s", " ", "p", "a", "y", "l", "o", "a", "d", ".">>>>,
       <<"Serialized data.", <<"S", "e", "r", "i", "a", "l", "i", "z", "e", "d", " ", "d", "a", "t", "a", ".">>>>,
       <<"deprecated = true", <<"d", "e", "p", "r", "e", "c", "a", "t", "e", "d", " ", "=", " ", "t", "r", "u", "e">>>>,
       <<"packed = true", <<"p", "a", "c", "k", "e", "d", " ", "=", " ", "t", "r", "u", "e">>>>,
       <<" ", <<" ">>>>,
       <<"\\s", <<"\\", "s">>>>,
       <<"X", <<"X">>>>,
       <<"E", <<"E">>>>,
       <<"S", <<"S">>>>,
       <<"M", <<"M">>>>,
       <<"N", <<"N">>>>,
       <<"a", <<"a">>>>,
       <<"b", <<"b">>>>,
       <<"c", <<"c">>>>,
       <<"A", <<"A">>>>,
       <<"B", <<"B">>>>,
       <<"C", <<"C">>>>,
       <<"D", <<"D">>>>,
       <<"K", <<"K">>>>,
       <<"x", <<"x">>>>,
       <<"y", <<"y">>>>,
       <<"a.proto", <<"a", ".", "p", "r", "o", "t", "o">>>>,
       <<"b.proto", <<"b", ".", "p", "r", "o", "t", "o">>>>,
       <<"cloudservice/v1/service.proto", <<"c", "l", "o", "u", "d", "s", "e", "r", "v", "i", "c", "e", "/", "v", "1", "/", "s", "e", "r", "v", "i", "c", "e", ".", "p", "r", "o", "t", "o">>>>,
       <<"other/v1/message.proto", <<"o", "t", "h", "e", "r", "/", "v", "1", "/", "m", "e", "s", "s", "a", "g", "e", ".", "p", "r", "o", "t", "o">>>>,
       <<"demo.proto", <<"d", "e", "m", "o", ".", "p", "r", "o", "t", "o">>>>,
       <<"cloudservice/v1/extra.proto", <<"c", "l", "o", "u", "d", "s", "e", "r", "v", "i", "c", "e", "/", "v", "1", "/", "e", "x", "t", "r", "a", ".", "p", "r", "o", "t", "o">>>>,
       <<"more/v1/more.proto", <<"m", "o", "r", "e", "/", "v", "1", "/", "m", "o", "r", "e", ".", "p", "r", "o", "t", "o">>>>,
       <<"more", <<"m", "o", "r", "e">>>>,
       <<"from_more", <<"f", "r", "o", "m", "_", "m", "o", "r", "e">>>>,
       <<"Req", <<"R", "e", "q">>>>,
       <<"Res", <<"R", "e", "s">>>>,
       <<"message", <<"m", "e", "s", "s", "a", "g", "e">>>>,
       <<"name", <<"n", "a", "m", "e">>>>,
       <<"Greeter", <<"G", "r", "e", "e", "t", "e", "r">>>>,
       <<"SayHello", <<"S", "a", "y", "H", "e", "l", "l", "o">>>>,
       <<"HelloRequest", <<"H", "e", "l", "l", "o", "R", "e", "q", "u", "e", "s", "t">>>>,
       <<"HelloReply", <<"H", "e", "l", "l", "o", "R", "e", "p", "l", "y">>>>,
       <<"Items", <<"I", "t", "e", "m", "s">>>>,
       <<"GetItem", <<"G", "e", "t", "I", "t", "e", "m">>>>,
       <<"Item", <<"I", "t", "e", "m">>>>,
       <<"item_id", <<"i", "t", "e", "m", "_", "i", "d">>>>,
       <<"owner_email", <<"o", "w", "n", "e", "r", "_", "e", "m", "a", "i", "l">>>>,
       <<"display_name", <<"d", "i", "s", "p", "l", "a", "y", "_", "n", "a", "m", "e">>>>,
       <<"tags", <<"t", "a", "g", "s">>>>,
       <<"created", <<"c", "r", "e", "a", "t", "e", "d">>>>,
       <<"detail", <<"d", "e", "t", "a", "i", "l">>>>,
       <<"note", <<"n", "o", "t", "e">>>>,
       <<"count", <<"c", "o", "u", "n", "t">>>>,
       <<"first", <<"f", "i", "r", "s", "t">>>>,
       <<"second", <<"s", "e", "c", "o", "n", "d">>>>,
       <<"Missing", <<"M", "i", "s", "s", "i", "n", "g">>>>,
       <<"Empty", <<"E", "m", "p", "t", "y">>>>,
       <<"Billing", <<"B", "i", "l", "l", "i", "n", "g">>>>,
       <<"PutItem", <<"P", "u", "t", "I", "t", "e", "m">>>>,
       <<"Nope", <<"N", "o", "p", "e">>>>,
       <<"Gone", <<"G", "o", "n", "e">>>>,
       <<"T", <<"T">>>>,
       <<"z", <<"z">>>>,
       <<"w", <<"w">>>>,
       <<"v", <<"v">>>>,
       <<"Kind", <<"K", "i", "n", "d">>>>,
       <<"email_id", <<"e", "m", "a", "i", "l", "_", "i", "d">>>>,
       <<"Name", <<"N", "a", "m", "e">>>>,
       <<"UNKNOWN", <<"U", "N", "K", "N", "O", "W", "N">>>>,
       <<"/v1/items", <<"/", "v", "1", "/", "i", "t", "e", "m", "s">>>>,
       <<"/v1/items/{id}", <<"/", "v", "1", "/", "i", "t", "e", "m", "s", "/", "{", "i", "d", "}">>>>,
       <<"/v1/items?a=1&b=2", <<"/", "v", "1", "/", "i", "t", "e", "m", "s", "?", "a", "=", "1", "&", "b", "=", "2">>>>,
       <<"*", <<"*">>>>,
       <<"status", <<"s", "t", "a", "t", "u", "s">>>>,
       <<"state", <<"s", "t", "a", "t", "e">>>>,
       <<"error", <<"e", "r", "r", "o", "r">>>>,
       <<"config", <<"c", "o", "n", "f", "i", "g">>>>,
       <<"info", <<"i", "n", "f", "o">>>>,
       <<"result", <<"r", "e", "s", "u", "l", "t">>>>,
       <<"timestamp", <<"t", "i", "m", "e", "s", "t", "a", "m", "p">>>>,
       <<"_id", <<"_", "i", "d">>>>,
       <<"email", <<"e", "m", "a", "i", "l">>>>,
       <<"example_", <<"e", "x", "a", "m", "p", "l", "e", "_">>>>,
       <<"example_string", <<"e", "x", "a", "m", "p", "l", "e", "_", "s", "t", "r", "i", "n", "g">>>>,
       <<"123", <<"1", "2", "3">>>>,
       <<"123456789", <<"1", "2", "3", "4", "5", "6", "7", "8", "9">>>>,
       <<"true", <<"t", "r", "u", "e">>>>,
       <<"123.45", <<"1", "2", "3", ".", "4", "5">>>>,
       <<"base64_encoded_data", <<"b", "a", "s", "e", "6", "4", "_", "e", "n", "c", "o", "d", "e", "d", "_", "d", "a", "t", "a">>>>,
       <<"2023-12-01T12:00:00Z", <<"2", "0", "2", "3", "-", "1", "2", "-", "0", "1", "T", "1", "2", ":", "0", "0", ":", "0", "0", "Z">>>>,
       <<"unique_identifier_123", <<"u", "n", "i", "q", "u", "e", "_", "i", "d", "e", "n", "t", "i", "f", "i", "e", "r", "_", "1", "2", "3">>>>,
       <<"user@example.com", <<"u", "s", "e", "r", "@", "e", "x", "a", "m", "p", "l", "e", ".", "c", "o", "m">>>>,
       <<"example_name", <<"e", "x", "a", "m", "p", "l", "e", "_", "n", "a", "m", "e">>>>,
       <<".", <<".">>>>,
       <<"No description available", <<"N", "o", " ", "d", "e", "s", "c", "r", "i", "p", "t", "i", "o", "n", " ", "a", "v", "a", "i", "l", "a", "b", "l", "e">>>>,
       <<"{", <<"{">>>>,
       <<"}", <<"}">>>>,
       <<"[", <<"[">>>>,
       <<"]", <<"]">>>>,
       <<"{}", <<"{", "}">>>>,
       <<"[]", <<"[", "]">>>>,
       <<",", <<",">>>>,
       <<",\n", <<",", "\n">>>>,
       <<": ", <<":", " ">>>>,
       <<"\"", <<"\"">>>>,
       <<"\n", <<"\n">>>>,
       <<"  ", <<" ", " ">>>>,
       <<"curl", <<"c", "u", "r", "l">>>>,
       <<"-X ", <<"-", "X", " ">>>>,
       <<"https://saas-api.tmprl.cloud", <<"h", "t", "t", "p", "s", ":", "/", "/", "s", "a", "a", "s", "-", "a", "p", "i", ".", "t", "m", "p", "r", "l", ".", "c", "l", "o", "u", "d">>>>,
       <<"-H \"Content-Type: application/json\"", <<"-", "H", " ", "\"", "C", "o", "n", "t", "e", "n", "t", "-", "T", "y", "p", "e", ":", " ", "a", "p", "p", "l", "i", "c", "a", "t", "i", "o", "n", "/", "j", "s", "o", "n", "\"">>>>,
       <<"-H \"Authorization: Bearer YOUR_API_KEY\"", <<"-", "H", " ", "\"", "A", "u", "t", "h", "o", "r", "i", "z", "a", "t", "i", "o", "n", ":", " ", "B", "e", "a", "r", "e", "r", " ", "Y", "O", "U", "R", "_", "A", "P", "I", "_", "K", "E", "Y", "\"">>>>,
       <<"-d '", <<"-", "d", " ", "'">>>>,
       <<"'", <<"'">>>>,
       <<" \\", <<" ", "\\">>>>,
       <<"GET", <<"G", "E", "T">>>>,
       <<"POST", <<"P", "O", "S", "T">>>>,
       <<"PUT", <<"P", "U", "T">>>>,
       <<"DELETE", <<"D", "E", "L", "E", "T", "E">>>>,
       <<"PATCH", <<"P", "A", "T", "C", "H">>>>,
       <<"duration", <<"d", "u", "r", "a", "t", "i", "o", "n">>>>,
       <<"any", <<"a", "n", "y">>>>,
       <<"payload", <<"p", "a", "y", "l", "o", "a", "d">>>>,
       <<"map&lt;string,bytes&gt;", <<"m", "a", "p", "&", "l", "t", ";", "s", "t", "r", "i", "n", "g", ",", "b", "y", "t", "e", "s", "&", "g", "t", ";">>>>,
       <<"a timestamp represents a point in time independent of any time zone or local calendar, encoded as a count of seconds and fractions of seconds at nanosecond resolution.", <<"a", " ", "t", "i", "m", "e", "s", "t", "a", "m", "p", " ", "r", "e", "p", "r", "e", "s", "e", "n", "t", "s", " ", "a", " ", "p", "o", "i", "n", "t", " ", "i", "n", " ", "t", "i", "m", "e", " ", "i", "n", "d", "e", "p", "e", "n", "d", "e", "n", "t", " ", "o", "f", " ", "a", "n", "y", " ", "t", "i", "m", "e", " ", "z", "o", "n", "e", " ", "o", "r", " ", "l", "o", "c", "a", "l", " ", "c", "a", "l", "e", "n", "d", "a", "r", ",", " ", "e", "n", "c", "o", "d", "e", "d", " ", "a", "s", " ", "a", " ", "c", "o", "u", "n", "t", " ", "o", "f", " ", "s", "e", "c", "o", "n", "d", "s", " ", "a", "n", "d", " ", "f", "r", "a", "c", "t", "i", "o", "n", "s", " ", "o", "f", " ", "s", "e", "c", "o", "n", "d", "s", " ", "a", "t", " ", "n", "a", "n", "o", "s", "e", "c", "o", "n", "d", " ", "r", "e", "s", "o", "l", "u", "t", "i", "o", "n", ".">>>>,
       <<"represents seconds of utc time since unix epoch 1970-01-01t00:00:00z.", <<"r", "e", "p", "r", "e", "s", "e", "n", "t", "s", " ", "s", "e", "c", "o", "n", "d", "s", " ", "o", "f", " ", "u", "t", "c", " ", "t", "i", "m", "e", " ", "s", "i", "n", "c", "e", " ", "u", "n", "i", "x", " ", "e", "p", "o", "c", "h", " ", "1", "9", "7", "0", "-", "0", "1", "-", "0", "1", "t", "0", "0", ":", "0", "0", ":", "0", "0", "z", ".">>>>,
       <<"non-negative fractions of a second at nanosecond resolution.", <<"n", "o", "n", "-", "n", "e", "g", "a", "t", "i", "v", "e", " ", "f", "r", "a", "c", "t", "i", "o", "n", "s", " ", "o", "f", " ", "a", " ", "s", "e", "c", "o", "n", "d", " ", "a", "t", " ", "n", "a", "n", "o", "s", "e", "c", "o", "n", "d", " ", "r", "e", "s", "o", "l", "u", "t", "i", "o", "n", ".">>>>,
       <<"a duration represents a signed, fixed-length span of time represented as a count of seconds and fractions of seconds at nanosecond resolution.", <<"a", " ", "d", "u", "r", "a", "t", "i", "o", "n", " ", "r", "e", "p", "r", "e", "s", "e", "n", "t", "s", " ", "a", " ", "s", "i", "g", "n", "e", "d", ",", " ", "f", "i", "x", "e", "d", "-", "l", "e", "n", "g", "t", "h", " ", "s", "p", "a", "n", " ", "o", "f", " ", "t", "i", "m", "e", " ", "r", "e", "p", "r", "e", "s", "e", "n", "t", "e", "d", " ", "a", "s", " ", "a", " ", "c", "o", "u", "n", "t", " ", "o", "f", " ", "s", "e", "c", "o", "n", "d", "s", " ", "a", "n", "d", " ", "f", "r", "a", "c", "t", "i", "o", "n", "s", " ", "o", "f", " ", "s", "e", "c", "o", "n", "d", "s", " ", "a", "t", " ", "n", "a", "n", "o", "s", "e", "c", "o", "n", "d", " ", "r", "e", "s", "o", "l", "u", "t", "i", "o", "n", ".">>>>,
       <<"signed seconds of the span of time.", <<"s", "i", "g", "n", "e", "d", " ", "s", "e", "c", "o", "n", "d", "s", " ", "o", "f", " ", "t", "h", "e", " ", "s", "p", "a", "n", " ", "o", "f", " ", "t", "i", "m", "e", ".">>>>,
       <<"signed fractions of a second at nanosecond resolution of the span of time.", <<"s", "i", "g", "n", "e", "d", " ", "f", "r", "a", "c", "t", "i", "o", "n", "s", " ", "o", "f", " ", "a", " ", "s", "e", "c", "o", "n", "d", " ", "a", "t", " ", "n", "a", "n", "o", "s", "e", "c", "o", "n", "d", " ", "r", "e", "s", "o", "l", "u", "t", "i", "o", "n", " ", "o", "f", " ", "t", "h", "e", " ", "s", "p", "a", "n", " ", "o", "f", " ", "t", "i", "m", "e", ".">>>>,
       <<"any contains an arbitrary serialized protocol buffer message along with a url that describes the type of the serialized message.", <<"a", "n", "y", " ", "c", "o", "n", "t", "a", "i", "n", "s", " ", "a", "n", " ", "a", "r", "b", "i", "t", "r", "a", "r", "y", " ", "s", "e", "r", "i", "a", "l", "i", "z", "e", "d", " ", "p", "r", "o", "t", "o", "c", "o", "l", " ", "b", "u", "f", "f", "e", "r", " ", "m", "e", "s", "s", "a", "g", "e", " ", "a", "l", "o", "n", "g", " ", "w", "i", "t", "h", " ", "a", " ", "u", "r", "l", " ", "t", "h", "a", "t", " ", "d", "e", "s", "c", "r", "i", "b", "e", "s", " ", "t", "h", "e", " ", "t", "y", "p", "e", " ", "o", "f", " ", "t", "h", "e", " ", "s", "e", "r", "i", "a", "l", "i", "z", "e", "d", " ", "m", "e", "s", "s", "a", "g", "e", ".">>>>,
       <<"a url/resource name that uniquely identifies the type of the serialized protocol buffer message.", <<"a", " ", "u", "r", "l", "/", "r", "e", "s", "o", "u", "r", "c", "e", " ", "n", "a", "m", "e", " ", "t", "h", "a", "t", " ", "u", "n", "i", "q", "u", "e", "l", "y", " ", "i", "d", "e", "n", "t", "i", "f", "i", "e", "s", " ", "t", "h", "e", " ", "t", "y", "p", "e", " ", "o", "f", " ", "t", "h", "e", " ", "s", "e", "r", "i", "a", "l", "i", "z", "e", "d", " ", "p", "r", "o", "t", "o", "c", "o", "l", " ", "b", "u", "f", "f", "e", "r", " ", "m", "e", "s", "s", "a", "g", "e", ".">>>>,
       <<"must be a valid serialized protocol buffer of the above specified type.", <<"m", "u", "s", "t", " ", "b", "e", " ", "a", " ", "v", "a", "l", "i", "d", " ", "s", "e", "r", "i", "a", "l", "i", "z", "e", "d", " ", "p", "r", "o", "t", "o", "c", "o", "l", " ", "b", "u", "f", "f", "e", "r", " ", "o", "f", " ", "t", "h", "e", " ", "a", "b", "o", "v", "e", " ", "s", "p", "e", "c", "i", "f", "i", "e", "d", " ", "t", "y", "p", "e", ".">>>>,
       <<"payload is used to serialize/deserialize data that is passed to/from activity/workflow implementations that are language agnostic.", <<"p", "a", "y", "l", "o", "a", "d", " ", "i", "s", " ", "u", "s", "e", "d", " ", "t", "o", " ", "s", "e", "r", "i", "a", "l", "i", "z", "e", "/", "d", "e", "s", "e", "r", "i", "a", "l", "i", "z", "e", " ", "d", "a", "t", "a", " ", "t", "h", "a", "t", " ", "i", "s", " ", "p", "a", "s", "s", "e", "d", " ", "t", "o", "/", "f", "r", "o", "m", " ", "a", "c", "t", "i", "v", "i", "t", "y", "/", "w", "o", "r", "k", "f", "l", "o", "w", " ", "i", "m", "p", "l", "e", "m", "e", "n", "t", "a", "t", "i", "o", "n", "s", " ", "t", "h", "a", "t", " ", "a", "r", "e", " ", "l", "a", "n", "g", "u", "a", "g", "e", " ", "a", "g", "n", "o", "s", "t", "i", "c", ".">>>>,
       <<"metadata contains additional context information for this payload.", <<"m", "e", "t", "a", "d", "a", "t", "a", " ", "c", "o", "n", "t", "a", "i", "n", "s", " ", "a", "d", "d", "i", "t", "i", "o", "n", "a", "l", " ", "c", "o", "n", "t", "e", "x", "t", " ", "i", "n", "f", "o", "r", "m", "a", "t", "i", "o", "n", " ", "f", "o", "r", " ", "t", "h", "i", "s", " ", "p", "a", "y", "l", "o", "a", "d", ".">>>>,
       <<"serialized data.", <<"s", "e", "r", "i", "a", "l", "i", "z", "e", "d", " ", "d", "a", "t", "a", ".">>>>,
       <<"e", <<"e">>>>,
       <<"s", <<"s">>>>,
       <<"m", <<"m">>>>,
       <<"n", <<"n">>>>,
       <<"d", <<"d">>>>,
       <<"k", <<"k">>>>,
       <<"req", <<"r", "e", "q">>>>,
       <<"res", <<"r", "e", "s">>>>,
       <<"greeter", <<"g", "r", "e", "e", "t", "e", "r">>>>,
       <<"sayhello", <<"s", "a", "y", "h", "e", "l", "l", "o">>>>,
       <<"hellorequest", <<"h", "e", "l", "l", "o", "r", "e", "q", "u", "e", "s", "t">>>>,
       <<"helloreply", <<"h", "e", "l", "l", "o", "r", "e", "p", "l", "y">>>>,
       <<"items", <<"i", "t", "e", "m", "s">>>>,
       <<"getitem", <<"g", "e", "t", "i", "t", "e", "m">>>>,
       <<"item", <<"i", "t", "e", "m">>>>,
       <<"missing", <<"m", "i", "s", "s", "i", "n", "g">>>>,
       <<"empty", <<"e", "m", "p", "t", "y">>>>,
       <<"billing", <<"b", "i", "l", "l", "i", "n", "g">>>>,
       <<"putitem", <<"p", "u", "t", "i", "t", "e", "m">>>>,
       <<"nope", <<"n", "o", "p", "e">>>>,
       <<"gone", <<"g", "o", "n", "e">>>>,
       <<"t", <<"t">>>>,
       <<"kind", <<"k", "i", "n", "d">>>>,
       <<"unknown", <<"u", "n", "k", "n", "o", "w", "n">>>>,
       <<"/v1/items?a=1&amp;b=2", <<"/", "v", "1", "/", "i", "t", "e", "m", "s", "?", "a", "=", "1", "&", "a", "m", "p", ";", "b", "=", "2">>>>,
       <<"2023-12-01t12:00:00z", <<"2", "0", "2", "3", "-", "1", "2", "-", "0", "1", "t", "1", "2", ":", "0", "0", ":", "0", "0", "z">>>>,
       <<"no description available", <<"n", "o", " ", "d", "e", "s", "c", "r", "i", "p", "t", "i", "o", "n", " ", "a", "v", "a", "i", "l", "a", "b", "l", "e">>>>,
       <<"&quot;", <<"&", "q", "u", "o", "t", ";">>>>,
       <<"-x ", <<"-", "x", " ">>>>,
       <<"-h \"content-type: application/json\"", <<"-", "h", " ", "\"", "c", "o", "n", "t", "e", "n", "t", "-", "t", "y", "p", "e", ":", " ", "a", "p", "p", "l", "i", "c", "a", "t", "i", "o", "n", "/", "j", "s", "o", "n", "\"">>>>,
       <<"-H &quot;Content-Type: application/json&quot;", <<"-", "H", " ", "&", "q", "u", "o", "t", ";", "C", "o", "n", "t", "e", "n", "t", "-", "T", "y", "p", "e", ":", " ", "a", "p", "p", "l", "i", "c", "a", "t", "i", "o", "n", "/", "j", "s", "o", "n", "&", "q", "u", "o", "t", ";">>>>,
       <<"-h &quot;content-type: application/json&quot;", <<"-", "h", " ", "&", "q", "u", "o", "t", ";", "c", "o", "n", "t", "e", "n", "t", "-", "t", "y", "p", "e", ":", " ", "a", "p", "p", "l", "i", "c", "a", "t", "i", "o", "n", "/", "j", "s", "o", "n", "&", "q", "u", "o", "t", ";">>>>,
       <<"-h \"authorization: bearer your_api_key\"", <<"-", "h", " ", "\"", "a", "u", "t", "h", "o", "r", "i", "z", "a", "t", "i", "o", "n", ":", " ", "b", "e", "a", "r", "e", "r", " ", "y", "o", "u", "r", "_", "a", "p", "i", "_", "k", "e", "y", "\"">>>>,
       <<"-H &quot;Authorization: Bearer YOUR_API_KEY&quot;", <<"-", "H", " ", "&", "q", "u", "o", "t", ";", "A", "u", "t", "h", "o", "r", "i", "z", "a", "t", "i", "o", "n", ":", " ", "B", "e", "a", "r", "e", "r", " ", "Y", "O", "U", "R", "_", "A", "P", "I", "_", "K", "E", "Y", "&", "q", "u", "o", "t", ";">>>>,
       <<"-h &quot;authorization: bearer your_api_key&quot;", <<"-", "h", " ", "&", "q", "u", "o", "t", ";", "a", "u", "t", "h", "o", "r", "i", "z", "a", "t", "i", "o", "n", ":", " ", "b", "e", "a", "r", "e", "r", " ", "y", "o", "u", "r", "_", "a", "p", "i", "_", "k", "e", "y", "&", "q", "u", "o", "t", ";">>>>,
       <<"-d &#x27;", <<"-", "d", " ", "&", "#", "x", "2", "7", ";">>>>,
       <<"-d '\"'\"'", <<"-", "d", " ", "'", "\"", "'", "\"", "'">>>>,
       <<"-d &#x27;&quot;&#x27;&quot;&#x27;", <<"-", "d", " ", "&", "#", "x", "2", "7", ";", "&", "q", "u", "o", "t", ";", "&", "#", "x", "2", "7", ";", "&", "q", "u", "o", "t", ";", "&", "#", "x", "2", "7", ";">>>>,
       <<"&#x27;", <<"&", "#", "x", "2", "7", ";">>>>,
       <<"'\"'\"'", <<"'", "\"", "'", "\"", "'">>>>,
       <<"&#x27;&quot;&#x27;&quot;&#x27;", <<"&", "#", "x", "2", "7", ";", "&", "q", "u", "o", "t", ";", "&", "#", "x", "2", "7", ";", "&", "q", "u", "o", "t", ";", "&", "#", "x", "2", "7", ";">>>> >>

\* the characters of a string
Chars(s) ==
    IF s = "" THEN <<>>
    ELSE Spelling[CHOOSE i \in DOMAIN Spelling : Spelling[i][1] = s][2]

\* the string spelled by the characters
StringOf(cs) ==
    IF cs = <<>> THEN ""
    ELSE Spelling[CHOOSE i \in DOMAIN Spelling : Spelling[i][2] = cs][1]

-----------------------------------------------------------------------------
(* Texts.  A text the program builds by concatenation or formatting is the *)
(* sequence of the strings it was put together from; its characters are    *)
(* Flatten(text).  An operation that works character by character (lower,  *)
(* upper, replace of one character, html.escape) is applied piece by piece.*)

RECURSIVE ConcatAll(_)
ConcatAll(seqs) == IF seqs = <<>> THEN <<>> ELSE Head(seqs) \o ConcatAll(Tail(seqs))

\* the characters of a text
Flatten(text) == ConcatAll([i \in DOMAIN text |-> Chars(text[i])])

\* the text with F applied to the characters of each piece
MapText(F(_), text) == [i \in DOMAIN text |-> StringOf(F(Chars(text[i])))]

\* sep.join(texts)
RECURSIVE Join(_, _)
Join(sep, texts) ==
    IF texts = <<>> THEN <<>>
    ELSE IF Len(texts) = 1 THEN texts[1]
    ELSE texts[1] \o <<sep>> \o Join(sep, Tail(texts))

\* s.lower() of a string
LowerOf(s) == StringOf(Lower(Chars(s)))

\* s.upper() of a string
UpperOf(s) == StringOf(Upper(Chars(s)))

\* what html.escape puts for one character (quote=True)
EscapedChar(c) ==
    IF c = "&" THEN <<"&", "a", "m", "p", ";">>
    ELSE IF c = "<" THEN <<"&", "l", "t", ";">>
    ELSE IF c = ">" THEN <<"&", "g", "t", ";">>
    ELSE IF c = "\"" THEN <<"&", "q", "u", "o", "t", ";">>
    ELSE IF c = "'" THEN <<"&", "#", "x", "2", "7", ";">>
    ELSE <<c>>

\* A mutant of HtmlEscapeChars: nothing is escaped.
HtmlEscapeCharsNot(cs) == cs

\* html.escape on characters
HtmlEscapeChars(cs) == ConcatAll([i \in DOMAIN cs |-> EscapedChar(cs[i])])

\* html.escape on a text
HtmlEscape(text) == MapText(HtmlEscapeChars, text)

\* body.replace("'", "'\"'\"'") on characters (line 668)
ShellQuoteChars(cs) ==
    ConcatAll([i \in DOMAIN cs |->
                 IF cs[i] = "'" THEN <<"'", "\"", "'", "\"", "'">> ELSE <<cs[i]>>])

-----------------------------------------------------------------------------
(* Dotted names, as sequences of segments *)

NoName == <<>>

\* a name of one segment
Simple(s) == <<s>>

\* '.' in name
HasDot(name) == Len(name) > 1

\* name.split('.')[-1]
LastSegment(name) == name[Len(name)]

\* '.'.join(name.split('.')[:-1])
AllButLast(name) == SubSeq(name, 1, Len(name) - 1)

\* f"{a}.{b}"
Dotted(a, b) == a \o b

\* name.startswith(prefix + '.')
StartsWithDotted(name, prefix) ==
    Len(name) > Len(prefix) /\ SubSeq(name, 1, Len(prefix)) = prefix

-----------------------------------------------------------------------------
(* Python dict: insertion-ordered entries [k, v], keys unique *)

EmptyDict == <<>>

DictHas(d, key) == \E i \in DOMAIN d : d[i].k = key

DictGet(d, key) == d[CHOOSE i \in DOMAIN d : d[i].k = key].v

DictKeys(d) == { d[i].k : i \in DOMAIN d }

\* The dict left by the assignments d[k] = v made in order on an empty dict:
\* a key stands where it was first assigned and holds what was last assigned.
DictOf(assignments) ==
    LET first == { i \in DOMAIN assignments :
                     \A j \in 1 .. i - 1 : assignments[j].k # assignments[i].k }
        last(i) == MaxOf({ j \in DOMAIN assignments : assignments[j].k = assignments[i].k })
    IN [n \in 1 .. Cardinality(first) |->
          [k |-> assignments[Nth(first, n)].k,
           v |-> assignments[last(Nth(first, n))].v]]

\* d[key] = val
DictSet(d, key, val) == DictOf(Append(d, [k |-> key, v |-> val]))

\* d.update(e)
DictUpdate(d, e) == DictOf(d \o e)

-----------------------------------------------------------------------------
(* The initial values of each component, and its state while unused *)

NotFound == -1

BraceIdle ==
    /\ content = <<>>
    /\ start_pos = 0
    /\ scan_i = 0
    /\ brace_count = 0
    /\ brace_ret = NotFound
    /\ brace_pc = "idle"

\* ProtoParser.__init__ (lines 61-66)
RegistryEmpty ==
    /\ messages = EmptyDict
    /\ services = EmptyDict
    /\ enums = EmptyDict
    /\ packages = EmptyDict
    /\ next_oid = 1

NoFiles == <<>>

RegistryIdle ==
    /\ fs = NoFiles
    /\ unreadable = {}
    /\ RegistryEmpty
    /\ ingest_log = <<>>

RepoIdle ==
    /\ repo_pc = "idle"
    /\ walk_todo = <<>>
    /\ pre_messages = EmptyDict
    /\ pre_enums = EmptyDict
    /\ requalified = 0

\* self._referenced_types_cache is None (line 335) or a mapping: no element,
\* or the mapping as the one element
NoCache == <<>>

\* the mapping held by a cache that is set
CachedTypes == referenced_types_cache[1]

GraphIdle ==
    /\ graph_pc = "idle"
    /\ seed_todo = <<>>
    /\ call_stack = <<>>
    /\ referenced_types = EmptyDict
    /\ referenced_types_cache = NoCache
    /\ generator = 1
    /\ collect_calls = <<>>

RenderIdle ==
    /\ render_pc = "idle"
    /\ service_todo = <<>>
    /\ method_todo = <<>>
    /\ doc = <<>>
    /\ rendered = <<>>

MainIdle ==
    /\ args_service = ""
    /\ main_pc = "idle"
    /\ exit_status = <<>>
    /\ output_files = EmptyDict

ExampleIdle ==
    /\ example_pc = "idle"
    /\ example_stack = <<>>
    /\ example_message = <<>>
    /\ example_result = <<>>

GenIdle == GraphIdle /\ RenderIdle /\ MainIdle /\ ExampleIdle

\* nothing was printed
Silent == console = <<>>

-----------------------------------------------------------------------------
(* ProtoParser._find_matching_brace, one action per loop iteration.       *)
(* Python indices are 0-based: content[i] is the model's content[i + 1].  *)

BraceChars == {"{", "}", "a"}

\* A mutant of CountAfter: an inner opening brace is not counted.
CountAfterNoNesting(count, char) ==
    IF char = "{" THEN (IF count = 0 THEN 1 ELSE count)
    ELSE IF char = "}" THEN count - 1
    ELSE count

\* brace_count after reading char (lines 191-194)
CountAfter(count, char) ==
    IF char = "{" THEN count + 1
    ELSE IF char = "}" THEN count - 1
    ELSE count

\* the loop body returns at this character (lines 193-196)
ReturnsAt(count, char) == char = "}" /\ CountAfter(count, char) = 0

BraceInit ==
    /\ content \in SeqsUpTo(BraceChars, MaxTextLen) \ {<<>>}
    /\ start_pos \in 0 .. Len(content) - 1
    /\ scan_i = start_pos
    /\ brace_count = 0
    /\ brace_ret = NotFound
    /\ brace_pc = "scan"
    /\ RegistryIdle
    /\ RepoIdle
    /\ GenIdle
    /\ Silent

ScanStep ==
    /\ brace_pc = "scan"
    /\ scan_i < Len(content)
    /\ LET char == content[scan_i + 1] IN
         /\ brace_count' = CountAfter(brace_count, char)
         /\ IF ReturnsAt(brace_count, char)
              THEN /\ brace_ret' = scan_i
                   /\ brace_pc' = "done"
                   /\ scan_i' = scan_i
              ELSE /\ scan_i' = scan_i + 1
                   /\ UNCHANGED <<brace_ret, brace_pc>>
    /\ UNCHANGED <<content, start_pos, fs, unreadable, console, registryVars, ingest_log, repoVars, genVars>>

ScanEnd ==
    /\ brace_pc = "scan"
    /\ scan_i >= Len(content)
    /\ brace_ret' = NotFound
    /\ brace_pc' = "done"
    /\ UNCHANGED <<content, start_pos, scan_i, brace_count>>
    /\ UNCHANGED <<fs, unreadable, console, registryVars, ingest_log, repoVars, genVars>>

BraceNext == ScanStep \/ ScanEnd

SpecBrace == BraceInit /\ [][BraceNext]_vars

\* Depth of the text between Python indices i and j inclusive
RECURSIVE Depth(_, _, _)
Depth(text, i, j) ==
    IF j < i THEN 0
    ELSE Depth(text, i, j - 1)
         + (IF text[j + 1] = "{" THEN 1 ELSE IF text[j + 1] = "}" THEN -1 ELSE 0)

\* The indices at or after i where the depth counted from i is zero
ZeroDepthAt(text, i) == { j \in i .. Len(text) - 1 : Depth(text, i, j) = 0 }

\* C1: when start_pos holds an opening brace, _find_matching_brace returns the
\* first index at which the depth counted from start_pos is back to zero, and
\* -1 when the text ends before that.
C1_MatchingBrace ==
    (brace_pc = "done" /\ content[start_pos + 1] = "{") =>
        IF ZeroDepthAt(content, start_pos) = {}
          THEN brace_ret = NotFound
          ELSE /\ brace_ret = MinOf(ZeroDepthAt(content, start_pos))
               /\ content[brace_ret + 1] = "}"

\* a nested block was matched: the result is not the first closing brace
C1_Witness ==
    /\ brace_pc = "done"
    /\ content[start_pos + 1] = "{"
    /\ brace_ret = start_pos + 3
    /\ content[start_pos + 2] = "{"
    /\ content[start_pos + 3] = "}"

-----------------------------------------------------------------------------
(* Schema files.                                                           *)
(* A file is [package, decls]: the package statement (NoName when the file *)
(* has none) and its top-level blocks in text order.  A block is what the  *)
(* extractor's patterns see of a well-formed declaration:                  *)
(*   message: name, fields <<[label, type, name, options, number_fits]>>,  *)
(*            and empty_braces = TRUE for the text "message N {}" whose    *)
(*            body holds no character at all; number_fits is FALSE for a   *)
(*            field number of more digits than int() converts;             *)
(*   enum:    name, values <<[name, number]>>, empty_braces likewise;      *)
(*   service: name, rpcs <<[name, input, output, http, closed]>>, http     *)
(*            being the entries <<[kw, sep, path]>> of the option          *)
(*            (google.api.http) block, each written  kw:<sep>"path", and   *)
(*            closed = FALSE when the closing brace of the rpc or of the   *)
(*            service is not written.                                      *)
(* The values of field numbers, comments and import lists are not         *)
(* modelled: the comments of the entities read from files are empty.       *)

MessageBlock(n, fds, eb) ==
    [kind |-> "message", name |-> n, fields |-> fds, empty_braces |-> eb]

EnumBlock(n, vs, eb) ==
    [kind |-> "enum", name |-> n, values |-> vs, empty_braces |-> eb]

ServiceBlock(n, rs) == [kind |-> "service", name |-> n, rpcs |-> rs, closed |-> TRUE]

FieldDecl(l, t, n, o) ==
    [label |-> l, type |-> t, name |-> n, options |-> o, number_fits |-> TRUE]

\* a field written with a number too long for int()
FieldDeclHugeNumber(l, t, n, o) == [FieldDecl(l, t, n, o) EXCEPT !.number_fits = FALSE]

RpcDecl(n, i, o, h) ==
    [name |-> n, input |-> i, output |-> o, http |-> h, closed |-> TRUE]

HttpEntry(kw, sep, path) == [kw |-> kw, sep |-> sep, path |-> path]

-----------------------------------------------------------------------------
(* Entities (the dataclasses, lines 13-56) *)

\* ProtoField; the comment stays empty unless given
ProtoField(n, t, l, dep) ==
    [name |-> n, type |-> t, label |-> l, is_deprecated |-> dep, comment |-> ""]

\* ProtoField(name=..., type=..., number=..., comment=...)
ProtoFieldWithComment(n, t, c) == [ProtoField(n, t, "", FALSE) EXCEPT !.comment = c]

\* ProtoMessage with its _source_file
ProtoMessage(id, n, fds, src) ==
    [oid |-> id, name |-> n, fields |-> fds, source_file |-> src, comment |-> ""]

\* ProtoEnum with its _source_file
ProtoEnum(id, n, vs, src) ==
    [oid |-> id, name |-> n, values |-> vs, source_file |-> src]

\* ProtoMethod
ProtoMethod(n, i, o, hm, hp, hb) ==
    [name |-> n, input_type |-> i, output_type |-> o,
     http_method |-> hm, http_path |-> hp, http_body |-> hb]

\* ProtoService with its _source_file
ProtoService(id, n, ms, src) ==
    [oid |-> id, name |-> n, methods |-> ms, source_file |-> src]

-----------------------------------------------------------------------------
(* ProtoParser._parse_messages, _parse_enums, _parse_services *)

\* A mutant of IsDeprecated: the option is never recognised.
IsDeprecatedNever(options) == FALSE

\* 'deprecated = true' in field_options.lower()  (line 291)
IsDeprecated(options) == Contains(Chars("deprecated = true"), Lower(Chars(options)))

\* one field_pattern match (lines 283-302)
ParseField(fd) == ProtoField(fd.name, fd.type, fd.label, IsDeprecated(fd.options))

ParseFields(fds) == [i \in DOMAIN fds |-> ParseField(fds[i])]

\* message_pattern needs [^}]+ between the braces (line 271)
MessagePatternMatches(b) == b.kind = "message" /\ ~b.empty_braces

\* enum_pattern needs [^}]+ between the braces (line 308)
EnumPatternMatches(b) == b.kind = "enum" /\ ~b.empty_braces

\* A mutant of StoreMessage: a name already present gets the new fields
\* appended to the old ones (a merge).
StoreMessageMerging(msgs, m) ==
    IF DictHas(msgs, Simple(m.name))
      THEN DictSet(msgs, Simple(m.name),
                   [m EXCEPT !.fields = DictGet(msgs, Simple(m.name)).fields \o m.fields])
      ELSE DictSet(msgs, Simple(m.name), m)

\* self.messages[message_name] = message  (line 304)
StoreMessage(msgs, m) == DictSet(msgs, Simple(m.name), m)

\* number=int(field_match.group(4)) raises ValueError (line 286)
FieldRaises(b) ==
    MessagePatternMatches(b) /\ \E i \in DOMAIN b.fields : ~b.fields[i].number_fits

\* the first block at which _parse_messages raises, 0 when it returns
FirstRaising(decls) ==
    IF \E i \in DOMAIN decls : FieldRaises(decls[i])
      THEN MinOf({ i \in DOMAIN decls : FieldRaises(decls[i]) })
      ELSE 0

\* the blocks _parse_messages gets through
BlocksBeforeRaise(decls) ==
    IF FirstRaising(decls) = 0 THEN decls ELSE SubSeq(decls, 1, FirstRaising(decls) - 1)

\* _parse_messages over the file's blocks (lines 269-304); returns the
\* mapping and the next oid
RECURSIVE ParseMessages(_, _, _, _)
ParseMessages(decls, msgs, id, filepath) ==
    IF decls = <<>> THEN [d |-> msgs, n |-> id]
    ELSE LET b == Head(decls) IN
         IF MessagePatternMatches(b)
           THEN ParseMessages(Tail(decls),
                    StoreMessage(msgs,
                        ProtoMessage(id, b.name, ParseFields(b.fields), filepath)),
                    id + 1, filepath)
           ELSE ParseMessages(Tail(decls), msgs, id, filepath)

\* enum.values[value_name] = value_number over the value_pattern matches
\* (lines 320-325)
ParseValues(vs) == DictOf([i \in DOMAIN vs |-> [k |-> vs[i].name, v |-> vs[i].number]])

\* _parse_enums (lines 306-327)
RECURSIVE ParseEnums(_, _, _, _)
ParseEnums(decls, ens, id, filepath) ==
    IF decls = <<>> THEN [d |-> ens, n |-> id]
    ELSE LET b == Head(decls) IN
         IF EnumPatternMatches(b)
           THEN ParseEnums(Tail(decls),
                    DictSet(ens, Simple(b.name),
                        ProtoEnum(id, b.name, ParseValues(b.values), filepath)),
                    id + 1, filepath)
           ELSE ParseEnums(Tail(decls), ens, id, filepath)

\* \s* between the colon and the quote (line 252)
IsWhitespace(cs) == \A i \in DOMAIN cs : cs[i] \in {" ", "\t", "\n"}

\* re.search(f'{http_method}:\s*"([^"]+)"', http_options) finds an entry
\* whose keyword text ends with the verb, with only blanks before the quote
\* and a non-empty path
VerbEntries(http, verb) ==
    { i \in DOMAIN http :
        /\ EndsWith(Chars(http[i].kw), Chars(verb))
        /\ IsWhitespace(Chars(http[i].sep))
        /\ http[i].path # "" }

\* the order of the verb loop (line 251)
HttpVerbs == <<"get", "post", "put", "delete", "patch">>

\* the verbs of HttpVerbs that match somewhere in the block
BoundVerbs(http) == { v \in DOMAIN HttpVerbs : VerbEntries(http, HttpVerbs[v]) # {} }

\* body_pattern r'body:\\s*"([^"]*)"' (line 260): a backslash, then any
\* number of the letter s, then the quote
BodySepMatches(cs) ==
    /\ Len(cs) >= 1
    /\ cs[1] = "\\"
    /\ \A i \in 2 .. Len(cs) : cs[i] = "s"

BodyEntries(http) ==
    { i \in DOMAIN http :
        EndsWith(Chars(http[i].kw), Chars("body")) /\ BodySepMatches(Chars(http[i].sep)) }

\* rpc_start_pattern takes (\w+) for both types (line 218)
RpcPatternMatches(r) == ~HasDot(r.input) /\ ~HasDot(r.output)

\* one rpc match to its ProtoMethod (lines 221-265): the first verb of the
\* loop that matches wins, with the first entry it matches
ParseRpc(r) ==
    LET bound == BoundVerbs(r.http)
        v == MinOf(bound)
        e == MinOf(VerbEntries(r.http, HttpVerbs[v]))
        bodies == BodyEntries(r.http)
    IN ProtoMethod(r.name, r.input, r.output,
            IF bound = {} THEN "" ELSE StringOf(Upper(Chars(HttpVerbs[v]))),
            IF bound = {} THEN "" ELSE r.http[e].path,
            IF bodies = {} THEN "" ELSE r.http[MinOf(bodies)].path)

-----------------------------------------------------------------------------
(* The braces of a file, as _parse_services and _find_matching_brace see   *)
(* them: the opening brace a service_start_pattern match ends with, the    *)
(* one an rpc_start_pattern match ends with, the one of an option          *)
(* (google.api.http) block, any other opening brace, and closing braces.   *)

BraceToken(kind, decl) == [brace |-> kind, decl |-> decl]

RpcTokens(r) ==
    << BraceToken(IF RpcPatternMatches(r) THEN "rpc" ELSE "open", r) >>
    \o (IF r.http # <<>>
          THEN << BraceToken("option", r), BraceToken("close", r) >>
          ELSE <<>>)
    \o (IF r.closed THEN << BraceToken("close", r) >> ELSE <<>>)

BlockTokens(b) ==
    IF b.kind = "service"
      THEN << BraceToken("service", b) >>
           \o ConcatAll([i \in DOMAIN b.rpcs |-> RpcTokens(b.rpcs[i])])
           \o (IF b.closed THEN << BraceToken("close", b) >> ELSE <<>>)
      ELSE << BraceToken("open", b), BraceToken("close", b) >>

FileTokens(decls) == ConcatAll([i \in DOMAIN decls |-> BlockTokens(decls[i])])

\* brace_count after the brace at i, counting from from_pos
BraceCount(tokens, from_pos, i) ==
    Cardinality({ j \in from_pos .. i : tokens[j].brace # "close" })
      - Cardinality({ j \in from_pos .. i : tokens[j].brace = "close" })

\* _find_matching_brace (lines 187-197) over the braces: the first closing
\* brace at which the count is back at zero, or -1
FindMatchingBrace(tokens, from_pos) ==
    LET hits == { i \in from_pos .. Len(tokens) :
                    tokens[i].brace = "close" /\ BraceCount(tokens, from_pos, i) = 0 }
    IN IF hits = {} THEN NotFound ELSE MinOf(hits)

\* the http entries re.search finds in the method body (lines 242-249): those
\* of its first option block, if that block closes
HttpOptionsIn(method_body) ==
    LET opts == { o \in DOMAIN method_body : method_body[o].brace = "option" }
    IN IF opts = {} \/ FindMatchingBrace(method_body, MinOf(opts)) = NotFound
         THEN <<>>
         ELSE method_body[MinOf(opts)].decl.http

\* one rpc_start_pattern match whose brace closes (lines 230-265)
ParseRpcAt(service_body, rpc_start_pos) ==
    LET rpc_end_pos == FindMatchingBrace(service_body, rpc_start_pos)
        method_body == SubSeq(service_body, rpc_start_pos + 1, rpc_end_pos - 1)
    IN ParseRpc([service_body[rpc_start_pos].decl EXCEPT !.http = HttpOptionsIn(method_body)])

\* the rpc loop over the service body (lines 219-265): a match whose brace
\* does not close is skipped (line 228)
ParseRpcsIn(service_body) ==
    LET kept == { r \in DOMAIN service_body :
                    /\ service_body[r].brace = "rpc"
                    /\ FindMatchingBrace(service_body, r) # NotFound }
    IN [n \in 1 .. Cardinality(kept) |-> ParseRpcAt(service_body, Nth(kept, n))]

\* the service loop from the match at from_pos on (lines 204-267): a match
\* whose brace does not close is skipped (line 210)
RECURSIVE ParseServicesFrom(_, _, _, _, _)
ParseServicesFrom(tokens, from_pos, svcs, id, filepath) ==
    IF from_pos > Len(tokens) THEN [d |-> svcs, n |-> id]
    ELSE IF tokens[from_pos].brace # "service"
           \/ FindMatchingBrace(tokens, from_pos) = NotFound
      THEN ParseServicesFrom(tokens, from_pos + 1, svcs, id, filepath)
    ELSE LET end_pos == FindMatchingBrace(tokens, from_pos)
             service_body == SubSeq(tokens, from_pos + 1, end_pos - 1)
             b == tokens[from_pos].decl
         IN ParseServicesFrom(tokens, from_pos + 1,
                DictSet(svcs, Simple(b.name),
                        ProtoService(id, b.name, ParseRpcsIn(service_body), filepath)),
                id + 1, filepath)

\* _parse_services (lines 199-267)
ParseServices(decls, svcs, id, filepath) ==
    ParseServicesFrom(FileTokens(decls), 1, svcs, id, filepath)
-----------------------------------------------------------------------------
(* ProtoParser: parse_file, _add_well_known_types, _build_qualified_names *)

\* parse_file raises: open/read fails (lines 70-71) or a field number does
\* not convert (line 286)
ParseFileRaises(filepath) ==
    filepath \in unreadable \/ FirstRaising(fs[filepath].decls) # 0

\* parse_file on the registry reg (lines 68-94): the package, then the
\* services, the messages and the enums of the file, as far as it gets
ParseFileOn(reg, filepath) ==
    LET file == fs[filepath]
        pk == IF file.package # NoName
                THEN DictSet(reg.packages, filepath, file.package)
                ELSE reg.packages
        sv == ParseServices(file.decls, reg.services, reg.next_oid, filepath)
        ms == ParseMessages(BlocksBeforeRaise(file.decls), reg.messages, sv.n, filepath)
        en == IF FirstRaising(file.decls) = 0
                THEN ParseEnums(file.decls, reg.enums, ms.n, filepath)
                ELSE [d |-> reg.enums, n |-> ms.n]
    IN IF filepath \in unreadable THEN reg
       ELSE [messages |-> ms.d, services |-> sv.d, enums |-> en.d,
             packages |-> pk, next_oid |-> en.n]

Registry ==
    [messages |-> messages, services |-> services, enums |-> enums,
     packages |-> packages, next_oid |-> next_oid]

SetRegistry(reg) ==
    /\ messages' = reg.messages
    /\ services' = reg.services
    /\ enums' = reg.enums
    /\ packages' = reg.packages
    /\ next_oid' = reg.next_oid

GoogleProtobuf == <<"google", "protobuf">>
TemporalApiCommon == <<"temporal", "api", "common">>
TemporalApiCommonV1 == <<"temporal", "api", "common", "v1">>

\* the four built-in messages, in the order they are registered
WellKnown ==
    << [name |-> "Timestamp", qualified |-> <<"google", "protobuf", "Timestamp">>,
        file |-> "google/protobuf/timestamp.proto", package |-> GoogleProtobuf,
        comment |-> "A Timestamp represents a point in time independent of any time zone or local calendar, encoded as a count of seconds and fractions of seconds at nanosecond resolution.",
        fields |-> << ProtoFieldWithComment("seconds", <<"int64">>,
                          "Represents seconds of UTC time since Unix epoch 1970-01-01T00:00:00Z."),
                      ProtoFieldWithComment("nanos", <<"int32">>,
                          "Non-negative fractions of a second at nanosecond resolution.") >>],
       [name |-> "Duration", qualified |-> <<"google", "protobuf", "Duration">>,
        file |-> "google/protobuf/duration.proto", package |-> GoogleProtobuf,
        comment |-> "A Duration represents a signed, fixed-length span of time represented as a count of seconds and fractions of seconds at nanosecond resolution.",
        fields |-> << ProtoFieldWithComment("seconds", <<"int64">>,
                          "Signed seconds of the span of time."),
                      ProtoFieldWithComment("nanos", <<"int32">>,
                          "Signed fractions of a second at nanosecond resolution of the span of time.") >>],
       [name |-> "Any", qualified |-> <<"google", "protobuf", "Any">>,
        file |-> "google/protobuf/any.proto", package |-> GoogleProtobuf,
        comment |-> "Any contains an arbitrary serialized protocol buffer message along with a URL that describes the type of the serialized message.",
        fields |-> << ProtoFieldWithComment("type_url", <<"string">>,
                          "A URL/resource name that uniquely identifies the type of the serialized protocol buffer message."),
                      ProtoFieldWithComment("value", <<"bytes">>,
                          "Must be a valid serialized protocol buffer of the above specified type.") >>],
       [name |-> "Payload", qualified |-> <<"temporal", "api", "common", "v1", "Payload">>,
        file |-> "temporal/api/common/v1/message.proto", package |-> TemporalApiCommonV1,
        comment |-> "Payload is used to serialize/deserialize data that is passed to/from activity/workflow implementations that are language agnostic.",
        fields |-> << ProtoFieldWithComment("metadata", <<"map<string,bytes>">>,
                          "Metadata contains additional context information for this payload."),
                      ProtoFieldWithComment("data", <<"bytes">>, "Serialized data.") >>] >>

\* _add_well_known_types (lines 113-161), one built-in after the other
RECURSIVE AddWellKnownFrom(_, _)
AddWellKnownFrom(reg, i) ==
    IF i > Len(WellKnown) THEN reg
    ELSE LET w == WellKnown[i]
             msg == [ProtoMessage(reg.next_oid, w.name, w.fields, w.file)
                      EXCEPT !.comment = w.comment]
         IN AddWellKnownFrom(
              [reg EXCEPT
                 !.messages = DictSet(DictSet(@, Simple(w.name), msg), w.qualified, msg),
                 !.packages = DictSet(@, w.file, w.package),
                 !.next_oid = @ + 1],
              i + 1)

AddWellKnownTypesOn(reg) == AddWellKnownFrom(reg, 1)

\* A mutant of QualifiedName: the package prefix is left out.
QualifiedNameUnprefixed(package, name) == name

\* qualified_name = f"{package}.{msg_name}"  (lines 172, 179)
QualifiedName(package, name) == Dotted(package, name)

\* the inner loop over list(mapping.items()) for one (filepath, package)
\* (lines 170-175 and 177-181): the assignments it makes, in order
QualifyFile(entries, filepath, package) ==
    LET own == SelectSeq(entries, LAMBDA e : e.v.source_file = filepath)
    IN [i \in 1 .. 2 * Len(own) |->
          IF i % 2 = 1
            THEN [k |-> QualifiedName(package, own[(i + 1) \div 2].k),
                  v |-> own[(i + 1) \div 2].v]
            ELSE [k |-> own[i \div 2].k, v |-> own[i \div 2].v]]

\* the outer loop over self.packages.items() (line 168)
RECURSIVE QualifyAll(_, _)
QualifyAll(pkgs, entries) ==
    IF pkgs = <<>> THEN <<>>
    ELSE QualifyFile(entries, Head(pkgs).k, Head(pkgs).v)
         \o QualifyAll(Tail(pkgs), entries)

\* _build_qualified_names (lines 163-185)
BuildQualifiedNamesOn(reg) ==
    [reg EXCEPT
       !.messages = DictUpdate(@, DictOf(QualifyAll(reg.packages, reg.messages))),
       !.enums = DictUpdate(@, DictOf(QualifyAll(reg.packages, reg.enums)))]

-----------------------------------------------------------------------------
(* Inputs of the registry specifications: two schema files.  The file at   *)
(* "a.proto" holds up to MaxDecls blocks of BlockPool, with or without a      *)
(* package; the file at "b.proto" is one of OtherFiles.                       *)


BlockPool ==
    { MessageBlock("X", <<FieldDecl("", <<"string">>, "a", "")>>, FALSE),
      MessageBlock("X", <<FieldDecl("repeated", <<"int32">>, "b", "deprecated = true")>>, FALSE),
      MessageBlock("X", <<>>, TRUE),
      EnumBlock("E", <<[name |-> "A", number |-> 0]>>, FALSE),
      EnumBlock("E", <<[name |-> "B", number |-> 1]>>, FALSE),
      ServiceBlock("S", <<RpcDecl("M", <<"X">>, <<"X">>, <<>>)>>),
      ServiceBlock("S", <<>>) }

GeneratedFiles ==
    { [package |-> p, decls |-> d] :
        p \in {NoName, <<"pa">>}, d \in SeqsUpTo(BlockPool, MaxDecls) }

OtherFiles ==
    { [package |-> <<"pb">>,
       decls |-> << MessageBlock("X", <<FieldDecl("", <<"bool">>, "c", "")>>, FALSE),
                    EnumBlock("E", <<[name |-> "C", number |-> 2]>>, FALSE),
                    ServiceBlock("S", <<RpcDecl("N", <<"X">>, <<"X">>, <<>>)>>) >>],
      [package |-> <<"pa">>,
       decls |-> << MessageBlock("X", <<>>, FALSE),
                    MessageBlock("Timestamp",
                        <<FieldDecl("", <<"string">>, "a", "")>>, FALSE) >>],
      [package |-> NoName,
       decls |-> << EnumBlock("E", <<[name |-> "A", number |-> 0]>>, FALSE) >>] }

FileSystems ==
    { ("a.proto" :> fa) @@ ("b.proto" :> fb) : fa \in GeneratedFiles, fb \in OtherFiles }

\* a file whose second message has a field number int() does not convert
HugeNumberFile ==
    [package |-> <<"pb">>,
     decls |-> << ServiceBlock("S", <<RpcDecl("N", <<"X">>, <<"Y">>, <<>>)>>),
                  MessageBlock("X", <<FieldDecl("", <<"bool">>, "c", "")>>, FALSE),
                  MessageBlock("Y", <<FieldDeclHugeNumber("", <<"string">>, "b", "")>>, FALSE),
                  MessageBlock("Z", <<FieldDecl("", <<"string">>, "a", "")>>, FALSE),
                  EnumBlock("E", <<[name |-> "C", number |-> 2]>>, FALSE) >>]

\* files of two services and a message: the service S, its first or its
\* second rpc may lack the closing brace; the service T is well-formed
BraceFiles ==
    { [package |-> <<"pb">>,
       decls |->
          LET s == [ServiceBlock("S",
                       << [RpcDecl("N", <<"X">>, <<"X">>, <<>>) EXCEPT !.closed = c1],
                          [RpcDecl("M", <<"X">>, <<"X">>, <<HttpEntry("get", " ", "/v1/items")>>)
                             EXCEPT !.closed = c2] >>)
                      EXCEPT !.closed = cs]
              t == ServiceBlock("T",
                       << RpcDecl("K", <<"X">>, <<"X">>,
                                  <<HttpEntry("post", " ", "/v1/items")>>) >>)
              x == MessageBlock("X", <<FieldDecl("", <<"bool">>, "c", "")>>, FALSE)
          IN IF first THEN <<s, t, x>> ELSE <<t, x, s>>] :
        cs \in BOOLEAN, c1 \in BOOLEAN, c2 \in BOOLEAN, first \in BOOLEAN }

\* the repositories parse_repository walks; some files may not be readable
RepoFileSystems ==
    FileSystems
    \cup { ("a.proto" :> fa) @@ ("b.proto" :> HugeNumberFile) :
             fa \in { f \in GeneratedFiles : Len(f.decls) <= 1 } }
    \cup { ("a.proto" :> [package |-> NoName, decls |-> <<>>]) @@ ("b.proto" :> fb) :
             fb \in BraceFiles }

-----------------------------------------------------------------------------
(* Direct parse_file calls, in any order and number up to MaxIngest *)

IngestInit ==
    /\ BraceIdle
    /\ fs \in FileSystems
    /\ unreadable = {}
    /\ RegistryEmpty
    /\ ingest_log = <<>>
    /\ RepoIdle
    /\ GenIdle
    /\ Silent

ParseFile(filepath) ==
    /\ Len(ingest_log) < MaxIngest
    /\ SetRegistry(ParseFileOn(Registry, filepath))
    /\ ingest_log' = Append(ingest_log, [path |-> filepath, first_oid |-> next_oid])
    /\ UNCHANGED <<braceVars, genVars, fs, unreadable, console, repoVars>>

IngestNext == \E filepath \in DOMAIN fs : ParseFile(filepath)

SpecIngest == IngestInit /\ [][IngestNext]_vars

-----------------------------------------------------------------------------
(* parse_repository (lines 96-111): the walk, the built-ins, qualification; *)
(* then _build_qualified_names may be run again.                            *)

\* the orders in which os.walk may yield the files
WalkOrders ==
    { w \in [1 .. Cardinality(DOMAIN fs) -> DOMAIN fs] :
        \A i, j \in DOMAIN w : i # j => w[i] # w[j] }

RepoInit ==
    /\ BraceIdle
    /\ fs \in RepoFileSystems
    /\ unreadable \in SUBSET DOMAIN fs
    /\ RegistryEmpty
    /\ ingest_log = <<>>
    /\ repo_pc = "walk"
    /\ walk_todo \in WalkOrders
    /\ pre_messages = EmptyDict
    /\ pre_enums = EmptyDict
    /\ requalified = 0
    /\ GenIdle
    /\ Silent

\* print(f"Warning: Failed to parse {filepath}: {e}")  (line 106)
ParseWarning(filepath) == <<"Warning: Failed to parse ", filepath, ": ", "e">>

\* one iteration of the walk (lines 102-106): self.parse_file(filepath)
\* inside try, the warning in except
WalkFile ==
    /\ repo_pc = "walk"
    /\ walk_todo # <<>>
    /\ SetRegistry(ParseFileOn(Registry, Head(walk_todo)))
    /\ console' = IF ParseFileRaises(Head(walk_todo))
                    THEN Append(console, ParseWarning(Head(walk_todo)))
                    ELSE console
    /\ ingest_log' = Append(ingest_log, [path |-> Head(walk_todo), first_oid |-> next_oid])
    /\ walk_todo' = Tail(walk_todo)
    /\ UNCHANGED <<braceVars, genVars, fs, unreadable, repo_pc, pre_messages, pre_enums, requalified>>

AddWellKnownTypes ==
    /\ repo_pc = "walk"
    /\ walk_todo = <<>>
    /\ SetRegistry(AddWellKnownTypesOn(Registry))
    /\ repo_pc' = "qualify"
    /\ UNCHANGED <<braceVars, genVars, fs, unreadable, console, ingest_log, walk_todo, pre_messages, pre_enums, requalified>>

\* A mutant of BuildQualifiedNames: qualification runs while the walk is
\* still under way.
BuildQualifiedNamesEarly ==
    /\ repo_pc = "walk"
    /\ SetRegistry(BuildQualifiedNamesOn(Registry))
    /\ UNCHANGED <<braceVars, genVars, fs, unreadable, console, ingest_log, repo_pc, walk_todo,
                   pre_messages, pre_enums, requalified>>

BuildQualifiedNames ==
    /\ repo_pc = "qualify"
    /\ SetRegistry(BuildQualifiedNamesOn(Registry))
    /\ repo_pc' = "done"
    /\ UNCHANGED <<braceVars, genVars, fs, unreadable, console, ingest_log, walk_todo, pre_messages, pre_enums, requalified>>

\* _build_qualified_names run again on the registry parse_repository left
BuildQualifiedNamesAgain ==
    /\ repo_pc = "done"
    /\ requalified < MaxRequalify
    /\ pre_messages' = messages
    /\ pre_enums' = enums
    /\ SetRegistry(BuildQualifiedNamesOn(Registry))
    /\ requalified' = requalified + 1
    /\ UNCHANGED <<braceVars, genVars, fs, unreadable, console, ingest_log, repo_pc, walk_todo>>

RepoNext ==
    \/ WalkFile
    \/ AddWellKnownTypes
    \/ BuildQualifiedNames
    \/ BuildQualifiedNamesAgain

SpecRepo == RepoInit /\ [][RepoNext]_vars

-----------------------------------------------------------------------------
(* The other order of the same calls on a new parser: _add_well_known_types *)
(* first, then parse_file on every file of the tree, then                   *)
(* _build_qualified_names.                                                  *)

SeedFirstInit ==
    /\ BraceIdle
    /\ fs \in FileSystems
    /\ unreadable = {}
    /\ RegistryEmpty
    /\ ingest_log = <<>>
    /\ repo_pc = "seed"
    /\ walk_todo \in WalkOrders
    /\ pre_messages = EmptyDict
    /\ pre_enums = EmptyDict
    /\ requalified = 0
    /\ GenIdle
    /\ Silent

\* self._add_well_known_types() on the empty registry
SeedFirst ==
    /\ repo_pc = "seed"
    /\ SetRegistry(AddWellKnownTypesOn(Registry))
    /\ repo_pc' = "seeded"
    /\ UNCHANGED <<braceVars, genVars, fs, unreadable, console, ingest_log, walk_todo,
                   pre_messages, pre_enums, requalified>>

\* self.parse_file(filepath) on the seeded registry
ParseAfterSeed ==
    /\ repo_pc = "seeded"
    /\ walk_todo # <<>>
    /\ SetRegistry(ParseFileOn(Registry, Head(walk_todo)))
    /\ ingest_log' = Append(ingest_log, [path |-> Head(walk_todo), first_oid |-> next_oid])
    /\ walk_todo' = Tail(walk_todo)
    /\ UNCHANGED <<braceVars, genVars, fs, unreadable, console, repo_pc,
                   pre_messages, pre_enums, requalified>>

\* self._build_qualified_names() after the last file
QualifyAfterSeed ==
    /\ repo_pc = "seeded"
    /\ walk_todo = <<>>
    /\ SetRegistry(BuildQualifiedNamesOn(Registry))
    /\ repo_pc' = "done"
    /\ UNCHANGED <<braceVars, genVars, fs, unreadable, console, ingest_log, walk_todo,
                   pre_messages, pre_enums, requalified>>

SeedFirstNext == SeedFirst \/ ParseAfterSeed \/ QualifyAfterSeed

SpecSeedFirst == SeedFirstInit /\ [][SeedFirstNext]_vars

\* the registry parse_repository leaves after walking the files in the
\* given order (lines 98-111)
RECURSIVE ParseFilesOn(_, _)
ParseFilesOn(reg, paths) ==
    IF paths = <<>> THEN reg
    ELSE ParseFilesOn(ParseFileOn(reg, Head(paths)), Tail(paths))

ParseRepositoryOn(reg, paths) ==
    BuildQualifiedNamesOn(AddWellKnownTypesOn(ParseFilesOn(reg, paths)))

-----------------------------------------------------------------------------
(* Registry properties *)
-----------------------------------------------------------------------------
(* Direct parse_file calls on files whose service S binds its rpc M with   *)
(* 'post' and, in most inputs, a body entry: the keyword body, a colon,    *)
(* then a blank or the two characters backslash and s, then the quoted     *)
(* mask.                                                                   *)

BodySeparators == {" ", "\\s"}

BodyMasks == {"*", "name"}

BodyBindings ==
    { <<HttpEntry("post", " ", "/v1/items")>> }
    \cup { <<HttpEntry("post", " ", "/v1/items"), HttpEntry("body", sep, mask)>> :
             sep \in BodySeparators, mask \in BodyMasks }

BodyFiles ==
    { [package |-> <<"pa">>,
       decls |-> << ServiceBlock("S", <<RpcDecl("M", <<"X">>, <<"X">>, http)>>),
                    MessageBlock("X", <<FieldDecl("", <<"string">>, "a", "")>>, FALSE) >>] :
        http \in BodyBindings }

BodyFileSystems ==
    { ("a.proto" :> fa) @@ ("b.proto" :> fb) : fa \in BodyFiles, fb \in OtherFiles }

BodyInit ==
    /\ BraceIdle
    /\ fs \in BodyFileSystems
    /\ unreadable = {}
    /\ RegistryEmpty
    /\ ingest_log = <<>>
    /\ RepoIdle
    /\ GenIdle
    /\ Silent

SpecBody == BodyInit /\ [][IngestNext]_vars

-----------------------------------------------------------------------------
(* HTMLDocumentationGenerator: type resolution and classification *)

\* the key under which the mapping resolves proto_type: the exact name
\* first, then the name without its package prefix; NoName when neither
\* is a key (_resolve_type_reference, _resolve_enum_reference)
ResolvedKey(mapping, proto_type) ==
    IF DictHas(mapping, proto_type) THEN proto_type
    ELSE IF DictHas(mapping, Simple(LastSegment(proto_type)))
           THEN Simple(LastSegment(proto_type))
    ELSE NoName

Resolves(mapping, proto_type) == ResolvedKey(mapping, proto_type) # NoName

\* _resolve_type_reference, where it does not return None
ResolveTypeReference(proto_type) == DictGet(messages, ResolvedKey(messages, proto_type))

\* _resolve_enum_reference, where it does not return None
ResolveEnumReference(proto_type) == DictGet(enums, ResolvedKey(enums, proto_type))

BasicTypes == {"string", "int32", "int64", "bool", "double", "float", "bytes"}

AllowedGoogleTypes ==
    { <<"google", "protobuf", "Timestamp">>,
      <<"google", "protobuf", "Duration">>,
      <<"google", "protobuf", "Any">> }

AllowedCommonTypes == { <<"temporal", "api", "common", "v1", "Payload">> }

\* _should_expand_type
ShouldExpandType(proto_type) ==
    IF ~HasDot(proto_type) /\ proto_type[1] \in BasicTypes THEN FALSE
    ELSE IF StartsWithDotted(proto_type, GoogleProtobuf)
           THEN proto_type \in AllowedGoogleTypes
    ELSE IF StartsWithDotted(proto_type, TemporalApiCommon)
           THEN proto_type \in AllowedCommonTypes
    ELSE Resolves(messages, proto_type) \/ Resolves(enums, proto_type)

\* the paths of the built-in types, which no file on disk backs (line 820)
IsMockPath(filepath) ==
    \/ StartsWith(Chars(filepath), Chars("google/protobuf/"))
    \/ StartsWith(Chars(filepath), Chars("temporal/api/common/"))

\* re.search(rf'message\s+{simple_name}\s*\{', content) on the file's text:
\* the file holds a message block of that name, its braces empty or not
FileDeclaresMessage(filepath, simple_name) ==
    /\ filepath \in DOMAIN fs
    /\ \E i \in DOMAIN fs[filepath].decls :
         /\ fs[filepath].decls[i].kind = "message"
         /\ fs[filepath].decls[i].name = simple_name

\* _get_type_package; NoName stands for None
GetTypePackage(type_name) ==
    IF StartsWithDotted(type_name, GoogleProtobuf) THEN GoogleProtobuf
    ELSE IF StartsWithDotted(type_name, TemporalApiCommon) THEN TemporalApiCommonV1
    ELSE IF HasDot(type_name) THEN AllButLast(type_name)
    ELSE LET found == { i \in DOMAIN packages :
                          /\ ~IsMockPath(packages[i].k)
                          /\ FileDeclaresMessage(packages[i].k, LastSegment(type_name)) }
         IN IF found = {} THEN NoName ELSE packages[MinOf(found)].v

ExcludedTypes ==
    { <<"google", "protobuf", "Empty">>,
      <<"google", "protobuf", "StringValue">>,
      <<"google", "protobuf", "Int64Value">>,
      <<"google", "protobuf", "BoolValue">> }

ExcludedSimpleNames ==
    { Chars(s) : s \in {"status", "state", "error", "metadata", "config", "info",
                        "data", "result"} }

\* _is_type_relevant
IsTypeRelevant(type_name) ==
    IF type_name \in ExcludedTypes THEN FALSE
    ELSE IF StartsWithDotted(type_name, <<"temporal", "api", "enums">>) THEN FALSE
    ELSE IF StartsWithDotted(type_name, TemporalApiCommon)
           THEN type_name \in AllowedCommonTypes
    ELSE IF StartsWithDotted(type_name, GoogleProtobuf)
           THEN type_name \in AllowedGoogleTypes
    ELSE Lower(Chars(LastSegment(type_name))) \notin ExcludedSimpleNames

\* main_packages: the packages of the files whose path holds 'cloudservice'
\* (lines 709-712)
MainPackages ==
    { packages[i].v : i \in { j \in DOMAIN packages :
                                Contains(Chars("cloudservice"), Chars(packages[j].k)) } }

\* A mutant of Included: the relevance filter alone decides.
IncludedAnyPackage(base_type) == IsTypeRelevant(base_type)

\* the inclusion test of lines 739 and 748
Included(base_type) ==
    /\ GetTypePackage(base_type) # NoName
    /\ GetTypePackage(base_type) \notin MainPackages
    /\ IsTypeRelevant(base_type)

-----------------------------------------------------------------------------
(* _collect_referenced_types (lines 701-798).  The calls of                *)
(* collect_from_message in progress are the frames of call_stack, the      *)
(* innermost last: [message, visited, depth, next], next being the index   *)
(* of the field the loop of line 722 takes next.                           *)

\* depth > 2 (line 718)
MaxDepth == 2

\* A mutant of ReturnsAtOnce: the depth is not limited.
ReturnsAtOnceUnlimited(message, visited, depth) == message.name \in visited

\* the early return of collect_from_message (line 718)
ReturnsAtOnce(message, visited, depth) ==
    message.name \in visited \/ depth > MaxDepth

\* collect_from_message(message, visited, depth) up to the loop: the call
\* returns at once, or marks the message visited and starts on its fields
Call(stack, message, visited, depth) ==
    IF ReturnsAtOnce(message, visited, depth) THEN stack
    ELSE Append(stack, [message |-> message, visited |-> visited \cup {message.name},
                        depth |-> depth, next |-> 1])

\* the input and output type of every method of every service, in the
\* order of the loops of lines 755-787
RECURSIVE SignatureTypes(_)
SignatureTypes(ms) ==
    IF ms = <<>> THEN <<>>
    ELSE <<Head(ms).input_type, Head(ms).output_type>> \o SignatureTypes(Tail(ms))

RECURSIVE AllSignatureTypes(_)
AllSignatureTypes(svcs) ==
    IF svcs = <<>> THEN <<>>
    ELSE SignatureTypes(Head(svcs).v.methods) \o AllSignatureTypes(Tail(svcs))

\* what a call of _collect_referenced_types returned
CallReturned(mapping, was_computed) ==
    [generator |-> generator, returned |-> mapping, computed |-> was_computed,
     ingested |-> Len(ingest_log)]

\* 'self._referenced_types_cache is not None' (line 703), tried with the
\* test of a truth value in its place
CacheHitTruthy(cache) == cache # NoCache /\ cache[1] # EmptyDict

CacheHit(cache) == cache # NoCache

\* the call is made on a generator whose cache is not set: by the sidebar
\* of generate_html, or on its own
CollectStart ==
    /\ main_pc = "generate"
    /\ render_pc \in {"idle", "sidebar"}
    /\ graph_pc \in {"ready", "done"}
    /\ ~CacheHit(referenced_types_cache)
    /\ referenced_types' = EmptyDict
    /\ seed_todo' = AllSignatureTypes(services)
    /\ graph_pc' = "collect"
    /\ UNCHANGED <<mainVars, braceVars, fs, unreadable, console, registryVars, ingest_log, repoVars, renderVars, exampleVars,
                   call_stack, referenced_types_cache, generator, collect_calls>>

\* self.parser.messages.get(type) and, when it is there,
\* collect_from_message(message)  (lines 759-771, 775-787)
Seed ==
    /\ graph_pc = "collect"
    /\ call_stack = <<>>
    /\ seed_todo # <<>>
    /\ call_stack' =
         IF DictHas(messages, Head(seed_todo))
           THEN Call(call_stack, DictGet(messages, Head(seed_todo)), {}, 0)
           ELSE call_stack
    /\ seed_todo' = Tail(seed_todo)
    /\ UNCHANGED <<mainVars, braceVars, fs, unreadable, console, registryVars, ingest_log, repoVars, renderVars, exampleVars,
                   graph_pc, referenced_types, referenced_types_cache, generator, collect_calls>>

\* one iteration of the loop over message.fields (lines 722-749)
VisitField ==
    /\ graph_pc = "collect"
    /\ call_stack # <<>>
    /\ LET top == call_stack[Len(call_stack)]
           advanced == [call_stack EXCEPT ![Len(call_stack)].next = @ + 1]
       IN /\ top.next <= Len(top.message.fields)
          /\ LET field == top.message.fields[top.next]
                 base_type == field.type
             IN IF field.is_deprecated \/ ~ShouldExpandType(base_type)
                  THEN /\ call_stack' = advanced
                       /\ UNCHANGED referenced_types
                ELSE IF Resolves(messages, base_type)
                  THEN IF Included(base_type)
                         THEN /\ referenced_types' =
                                   DictSet(referenced_types, base_type,
                                           [entity |-> ResolveTypeReference(base_type),
                                            package |-> GetTypePackage(base_type)])
                              /\ call_stack' =
                                   Call(advanced, ResolveTypeReference(base_type),
                                        top.visited, top.depth + 1)
                         ELSE /\ call_stack' = advanced
                              /\ UNCHANGED referenced_types
                ELSE IF Resolves(enums, base_type) /\ Included(base_type)
                  THEN /\ referenced_types' =
                            DictSet(referenced_types, base_type,
                                    [entity |-> ResolveEnumReference(base_type),
                                     package |-> GetTypePackage(base_type)])
                       /\ call_stack' = advanced
                ELSE /\ call_stack' = advanced
                     /\ UNCHANGED referenced_types
    /\ UNCHANGED <<mainVars, braceVars, fs, unreadable, console, registryVars, ingest_log, repoVars, renderVars, exampleVars,
                   graph_pc, seed_todo, referenced_types_cache, generator, collect_calls>>

\* the loop over message.fields is through: collect_from_message returns
ReturnFromMessage ==
    /\ graph_pc = "collect"
    /\ call_stack # <<>>
    /\ call_stack[Len(call_stack)].next > Len(call_stack[Len(call_stack)].message.fields)
    /\ call_stack' = SubSeq(call_stack, 1, Len(call_stack) - 1)
    /\ UNCHANGED <<mainVars, braceVars, fs, unreadable, console, registryVars, ingest_log, repoVars, renderVars, exampleVars,
                   graph_pc, seed_todo, referenced_types, referenced_types_cache, generator, collect_calls>>

\* lines 791-798: the result is cached and returned
CollectDone ==
    /\ graph_pc = "collect"
    /\ call_stack = <<>>
    /\ seed_todo = <<>>
    /\ referenced_types_cache' = <<referenced_types>>
    /\ graph_pc' = "done"
    /\ collect_calls' = Append(collect_calls, CallReturned(referenced_types, TRUE))
    /\ UNCHANGED <<mainVars, braceVars, fs, unreadable, console, registryVars, ingest_log, repoVars, renderVars, exampleVars,
                   seed_todo, call_stack, referenced_types, generator>>

\* lines 703-704: a call on a generator whose cache is set returns the
\* cache
CollectAgain ==
    /\ main_pc = "generate"
    /\ render_pc = "idle"
    /\ graph_pc = "done"
    /\ CacheHit(referenced_types_cache)
    /\ Len(collect_calls) < MaxCalls
    /\ collect_calls' = Append(collect_calls, CallReturned(CachedTypes, FALSE))
    /\ UNCHANGED <<mainVars, braceVars, fs, unreadable, console, registryVars, ingest_log, repoVars, renderVars, exampleVars,
                   graph_pc, seed_todo, call_stack, referenced_types, referenced_types_cache, generator>>

\* HTMLDocumentationGenerator(parser) (lines 332-335): another generator on
\* the same parser, its cache not set
NewGenerator ==
    /\ main_pc = "generate"
    /\ render_pc = "idle"
    /\ graph_pc = "done"
    /\ generator < MaxGenerators
    /\ generator' = generator + 1
    /\ referenced_types_cache' = NoCache
    /\ graph_pc' = "ready"
    /\ UNCHANGED <<mainVars, braceVars, fs, unreadable, console, registryVars, ingest_log, repoVars, renderVars, exampleVars,
                   seed_todo, call_stack, referenced_types, collect_calls>>

-----------------------------------------------------------------------------
(* main() from the call of parse_repository on (lines 1234-1269): the      *)
(* directory exists and the registry is being filled; then the service     *)
(* filter, generate_html and the write of the output file.                 *)

\* the default of --output (line 1209); it ends with '.html'
OutputPath == "api_reference.html"

\* list(proto_parser.services.keys()) as print shows it; a service is
\* registered under its simple name
KeysShown(d) ==
    <<"[">> \o Join(", ", [i \in DOMAIN d |-> <<"'", LastSegment(d[i].k), "'">>])
            \o <<"]">>

\* the two lines printed before sys.exit(1) (lines 1247-1249)
ServiceNotFound(service) ==
    << <<"Error: Service ", service, " not found">>,
       <<"Available services: ">> \o KeysShown(services) >>

\* A mutant of ServiceMissing: every name passes the filter.
ServiceMissingNever(service) == FALSE

\* args.service and args.service not in proto_parser.services
\* (lines 1245-1246)
ServiceMissing(service) == service # "" /\ ~DictHas(services, Simple(service))

\* filtered_services (lines 1252-1254), tried with the services left as
\* they are in its place
FilteredServicesAll(svcs, service) == svcs

FilteredServices(svcs, service) ==
    DictOf(<< [k |-> Simple(service), v |-> DictGet(svcs, Simple(service))] >>)

\* "Filter by service if specified" (lines 1245-1254)
FilterService ==
    /\ main_pc = "filter"
    /\ repo_pc = "done"
    /\ IF ServiceMissing(args_service)
         THEN /\ console' = console \o ServiceNotFound(args_service)
              /\ exit_status' = <<1>>
              /\ main_pc' = "exit"
              /\ UNCHANGED services
       ELSE IF DictHas(services, Simple(args_service))
         THEN /\ services' = FilteredServices(services, args_service)
              /\ main_pc' = "generate"
              /\ UNCHANGED <<console, exit_status>>
       ELSE /\ main_pc' = "generate"
            /\ UNCHANGED <<services, console, exit_status>>
    /\ UNCHANGED <<args_service, output_files, braceVars, fs, unreadable,
                   messages, enums, packages, next_oid, ingest_log, repoVars,
                   graphVars, renderVars, exampleVars>>

\* the document is written and main returns (lines 1259-1269)
WriteOutput ==
    /\ main_pc = "generate"
    /\ render_pc = "done"
    /\ output_files' = DictSet(output_files, OutputPath, doc)
    /\ exit_status' = <<0>>
    /\ main_pc' = "exit"
    /\ UNCHANGED <<args_service, console, braceVars, fs, unreadable, registryVars,
                   ingest_log, repoVars, graphVars, renderVars, exampleVars>>

-----------------------------------------------------------------------------
(* Inputs of the reference graph: the service file, under a path that      *)
(* holds 'cloudservice', and a file of another package.  The service file  *)
(* declares service S with rpc M(Req) returns (Res), the messages Req and  *)
(* Res and, in some inputs, a message A; the other file declares the       *)
(* messages A to E and the enum K.  The field types vary.                  *)

CloudPath == "cloudservice/v1/service.proto"
OtherPath == "other/v1/message.proto"
CloudPackage == <<"cloud", "v1">>
OtherPackage == <<"other", "v1">>

Other(n) == Dotted(OtherPackage, Simple(n))

OneField(t, n, o) == <<FieldDecl("", t, n, o)>>

CloudFiles ==
    { [package |-> CloudPackage,
       decls |->
          << ServiceBlock("S", << RpcDecl("M", <<"Req">>, <<"Res">>,
                                          <<HttpEntry("get", " ", "/v1/items")>>) >>),
             MessageBlock("Req", << FieldDecl("", t1, "x", ""),
                                    FieldDecl("repeated", t2, "y", "") >>, FALSE),
             MessageBlock("Res", OneField(<<"string">>, "message", ""), FALSE) >>
          \o own ] :
        t1 \in { Other("A"), Other("B"), <<"A">>, <<"Res">>, Other("K"),
                 <<"google", "protobuf", "Timestamp">>, <<"string">> },
        t2 \in { Other("B"), <<"string">> },
        own \in { <<>>, <<MessageBlock("A", OneField(<<"string">>, "x", ""), FALSE)>> } }

OtherMessageFiles ==
    { [package |-> OtherPackage,
       decls |->
          << MessageBlock("A", OneField(tA, "x", oA), FALSE),
             MessageBlock("B", OneField(tB, "x", ""), FALSE),
             MessageBlock("C", OneField(tC, "x", ""), FALSE),
             MessageBlock("D", OneField(tD, "x", ""), FALSE),
             MessageBlock("E", OneField(<<"string">>, "x", ""), FALSE),
             EnumBlock("K", <<[name |-> "A", number |-> 0]>>, FALSE) >> ] :
        tA \in { Other("B"), Other("A"), Other("K"), <<"string">> },
        oA \in { "", "deprecated = true" },
        tB \in { Other("C"), Other("A"), <<"string">> },
        tC \in { Other("D"), <<"string">> },
        tD \in { Other("E"), <<"string">> } }

GraphFileSystems ==
    { (CloudPath :> fc) @@ (OtherPath :> fo) : fc \in CloudFiles, fo \in OtherMessageFiles }

\* main() (lines 1234-1257): a parser, parse_repository, then a generator
\* whose first use of the reference graph collects it
GraphInit ==
    /\ BraceIdle
    /\ fs \in GraphFileSystems
    /\ unreadable = {}
    /\ args_service = ""
    /\ main_pc = "filter"
    /\ exit_status = <<>>
    /\ output_files = EmptyDict
    /\ Silent
    /\ RegistryEmpty
    /\ ingest_log = <<>>
    /\ repo_pc = "walk"
    /\ walk_todo \in WalkOrders
    /\ pre_messages = EmptyDict
    /\ pre_enums = EmptyDict
    /\ requalified = 0
    /\ graph_pc = "ready"
    /\ seed_todo = <<>>
    /\ call_stack = <<>>
    /\ referenced_types = EmptyDict
    /\ referenced_types_cache = NoCache
    /\ generator = 1
    /\ collect_calls = <<>>
    /\ ExampleIdle
    /\ RenderIdle

GraphNext ==
    \/ WalkFile
    \/ AddWellKnownTypes
    \/ BuildQualifiedNames
    \/ FilterService
    \/ CollectStart
    \/ Seed
    \/ VisitField
    \/ ReturnFromMessage
    \/ CollectDone

SpecGraph == GraphInit /\ [][GraphNext]_vars

-----------------------------------------------------------------------------
(* The reference graph asked for more than once.  After parse_repository   *)
(* a generator collects the graph; then the graph is asked for again, a    *)
(* further file is handed to parse_file, and a second generator is         *)
(* constructed on the same parser, in any order.  The further file         *)
(* declares service T with rpc N(X) returns (Res) and the message X whose  *)
(* field, in some inputs, has the type other.v1.E, which nothing else      *)
(* refers to.                                                              *)

ExtraPath == "cloudservice/v1/extra.proto"

ExtraFiles ==
    { [package |-> CloudPackage,
       decls |->
          << ServiceBlock("T", << RpcDecl("N", <<"X">>, <<"Res">>,
                                          <<HttpEntry("get", " ", "/v1/items")>>) >>),
             MessageBlock("X", OneField(te, "x", ""), FALSE) >> ] :
        te \in { Other("E"), <<"string">> } }

MemoCloudFiles ==
    { [package |-> CloudPackage,
       decls |->
          << ServiceBlock("S", << RpcDecl("M", <<"Req">>, <<"Res">>,
                                          <<HttpEntry("get", " ", "/v1/items")>>) >>),
             MessageBlock("Req", OneField(t1, "x", ""), FALSE),
             MessageBlock("Res", OneField(<<"string">>, "message", ""), FALSE) >> ] :
        t1 \in { Other("A"), <<"string">> } }

MemoOtherFiles ==
    { [package |-> OtherPackage,
       decls |->
          << MessageBlock("A", OneField(tA, "x", ""), FALSE),
             MessageBlock("B", OneField(<<"string">>, "x", ""), FALSE),
             MessageBlock("E", OneField(<<"string">>, "x", ""), FALSE) >> ] :
        tA \in { Other("B"), <<"string">> } }

MemoFileSystems ==
    { (CloudPath :> fc) @@ (OtherPath :> fo) @@ (ExtraPath :> fe) :
        fc \in MemoCloudFiles, fo \in MemoOtherFiles, fe \in ExtraFiles }

\* the repository root holds the service file and the other file; the
\* further file lies outside of it
MemoInit ==
    /\ BraceIdle
    /\ fs \in MemoFileSystems
    /\ unreadable = {}
    /\ args_service = ""
    /\ main_pc = "filter"
    /\ exit_status = <<>>
    /\ output_files = EmptyDict
    /\ Silent
    /\ RegistryEmpty
    /\ ingest_log = <<>>
    /\ repo_pc = "walk"
    /\ walk_todo \in { <<CloudPath, OtherPath>>, <<OtherPath, CloudPath>> }
    /\ pre_messages = EmptyDict
    /\ pre_enums = EmptyDict
    /\ requalified = 0
    /\ graph_pc = "ready"
    /\ seed_todo = <<>>
    /\ call_stack = <<>>
    /\ referenced_types = EmptyDict
    /\ referenced_types_cache = NoCache
    /\ generator = 1
    /\ collect_calls = <<>>
    /\ ExampleIdle
    /\ RenderIdle

\* parser.parse_file(filepath) (lines 68-94) by the caller holding the
\* parser, between two uses of the reference graph
ParseFileLater ==
    /\ main_pc = "generate"
    /\ graph_pc \in {"ready", "done"}
    /\ \A i \in DOMAIN ingest_log : ingest_log[i].path # ExtraPath
    /\ SetRegistry(ParseFileOn(Registry, ExtraPath))
    /\ ingest_log' = Append(ingest_log, [path |-> ExtraPath, first_oid |-> next_oid])
    /\ UNCHANGED <<braceVars, genVars, fs, unreadable, console, repoVars>>

MemoNext ==
    \/ WalkFile
    \/ AddWellKnownTypes
    \/ BuildQualifiedNames
    \/ FilterService
    \/ CollectStart
    \/ Seed
    \/ VisitField
    \/ ReturnFromMessage
    \/ CollectDone
    \/ CollectAgain
    \/ ParseFileLater
    \/ NewGenerator

SpecMemo == MemoInit /\ [][MemoNext]_vars

-----------------------------------------------------------------------------
(* Example payloads: _get_example_value, _get_nested_example_value,        *)
(* _generate_example_json.  A JSON value is a string, a literal (a number  *)
(* or true), an object (a dict) or an array.                               *)

JsonString(text) == [json |-> "string", text |-> text]
JsonLiteral(s) == [json |-> "literal", text |-> <<s>>]
JsonObject(d) == [json |-> "object", members |-> d]
JsonArray(vs) == [json |-> "array", items |-> vs]

\* type_examples (lines 1177-1185), keyed by the spelling of the type
TypeExamples ==
    << [k |-> Chars("string"), v |-> JsonString(<<"example_string">>)],
       [k |-> Chars("int32"), v |-> JsonLiteral("123")],
       [k |-> Chars("int64"), v |-> JsonLiteral("123456789")],
       [k |-> Chars("bool"), v |-> JsonLiteral("true")],
       [k |-> Chars("double"), v |-> JsonLiteral("123.45")],
       [k |-> Chars("float"), v |-> JsonLiteral("123.45")],
       [k |-> Chars("bytes"), v |-> JsonString(<<"base64_encoded_data">>)] >>

\* resolved_message.fields[:3]  (line 1169)
NestedFieldLimit == 3

\* the fields that are not deprecated, in order (lines 1152-1153, 1170)
KeptFields(fields) == SelectSeq(fields, LAMBDA f : ~f.is_deprecated)

\* A mutant of ExampleValue: the table of the scalar types is not
\* consulted, the rules on the field's name decide.
ExampleValueByNameOnly(field) ==
    IF EndsWith(Chars(field.name), Chars("_id")) THEN JsonString(<<"unique_identifier_123">>)
    ELSE IF Contains(Chars("email"), Lower(Chars(field.name)))
      THEN JsonString(<<"user@example.com">>)
    ELSE IF Contains(Chars("name"), Lower(Chars(field.name)))
      THEN JsonString(<<"example_name">>)
    ELSE JsonString(<<"example_", field.name>>)

\* _get_example_value (lines 1175-1203) with _get_nested_example_value
\* (lines 1164-1173).  A message that holds itself, directly or through
\* others, by expandable fields that no earlier rule catches makes the code
\* recurse without end, and this operator with it.
RECURSIVE ExampleValue(_)
ExampleValue(field) ==
    LET base_type == Lower(Chars(LastSegment(field.type))) IN
    IF DictHas(TypeExamples, base_type) THEN DictGet(TypeExamples, base_type)
    ELSE IF Contains(Chars("timestamp"), base_type)
      THEN JsonString(<<"2023-12-01T12:00:00Z">>)
    ELSE IF EndsWith(Chars(field.name), Chars("_id"))
      THEN JsonString(<<"unique_identifier_123">>)
    ELSE IF Contains(Chars("email"), Lower(Chars(field.name)))
      THEN JsonString(<<"user@example.com">>)
    ELSE IF Contains(Chars("name"), Lower(Chars(field.name)))
      THEN JsonString(<<"example_name">>)
    ELSE IF ShouldExpandType(field.type)
      THEN IF Resolves(messages, field.type)
             THEN LET nested == KeptFields(
                               SubSeq(ResolveTypeReference(field.type).fields, 1,
                                      MinOf({NestedFieldLimit,
                                             Len(ResolveTypeReference(field.type).fields)})))
                  IN JsonObject(DictOf([i \in DOMAIN nested |->
                                          [k |-> nested[i].name,
                                           v |-> ExampleValue(nested[i])]]))
             ELSE JsonString(<<"example_", LowerOf(LastSegment(field.type))>>)
    ELSE JsonString(<<"example_", field.name>>)

\* example[field.name] of _generate_example_json (lines 1155-1160)
TopLevelValue(field) ==
    IF field.label = "repeated" THEN JsonArray(<<ExampleValue(field)>>)
    ELSE ExampleValue(field)

\* the dict _generate_example_json builds (lines 1149-1160)
ExampleOf(message) ==
    LET kept == KeptFields(message.fields)
    IN DictOf([i \in DOMAIN kept |-> [k |-> kept[i].name, v |-> TopLevelValue(kept[i])]])

Indent(level) == [i \in 1 .. level |-> "  "]

\* json.dumps(value, indent=2) at the given nesting level, for keys and
\* string values that need no JSON escape
RECURSIVE JsonDumps(_, _)
JsonDumps(value, level) ==
    IF value.json = "string" THEN <<"\"">> \o value.text \o <<"\"">>
    ELSE IF value.json = "literal" THEN value.text
    ELSE IF value.json = "array"
      THEN IF value.items = <<>> THEN <<"[]">>
           ELSE <<"[", "\n">>
                \o Join(",\n", [i \in DOMAIN value.items |->
                                  Indent(level + 1) \o JsonDumps(value.items[i], level + 1)])
                \o <<"\n">> \o Indent(level) \o <<"]">>
    ELSE IF value.members = <<>> THEN <<"{}">>
    ELSE <<"{", "\n">>
         \o Join(",\n", [i \in DOMAIN value.members |->
                           Indent(level + 1)
                           \o <<"\"", value.members[i].k, "\"", ": ">>
                           \o JsonDumps(value.members[i].v, level + 1)])
         \o <<"\n">> \o Indent(level) \o <<"}">>

\* _generate_example_json (lines 1147-1162)
GenerateExampleJson(message) == JsonDumps(JsonObject(ExampleOf(message)), 0)

-----------------------------------------------------------------------------
(* A call of _generate_example_json, step by step.  A frame of             *)
(* example_stack is the pending loop of _generate_example_json (the        *)
(* outermost) or of _get_nested_example_value: [fields, next, example],    *)
(* the fields looped over, the position of the loop and the dict built so  *)
(* far.  The interpreter ends a call chain that grows beyond its recursion *)
(* limit with RecursionError, which none of the three functions catches.   *)

ExampleFrame(fields) == [fields |-> fields, next |-> 1, example |-> EmptyDict]

\* the frames of the interpreter while the loop of the innermost frame
\* runs: the caller and _generate_example_json, and _get_example_value with
\* _get_nested_example_value per nesting
FrameDepth(stack) == 2 * Len(stack)

\* the rules of _get_example_value that give a value without a further
\* message (lines 1187-1198)
EarlierRuleApplies(field) ==
    LET base_type == Lower(Chars(LastSegment(field.type))) IN
    \/ DictHas(TypeExamples, base_type)
    \/ Contains(Chars("timestamp"), base_type)
    \/ EndsWith(Chars(field.name), Chars("_id"))
    \/ Contains(Chars("email"), Lower(Chars(field.name)))
    \/ Contains(Chars("name"), Lower(Chars(field.name)))

\* _get_example_value goes on into the fields of another message (lines
\* 1199-1201 and 1166-1171)
Descends(field) ==
    /\ ~EarlierRuleApplies(field)
    /\ ShouldExpandType(field.type)
    /\ Resolves(messages, field.type)

\* the deepest frame the evaluation of the field needs: _get_example_value
\* alone, or below it _should_expand_type or _get_nested_example_value, each
\* with _resolve_type_reference
FramesNeeded(field, stack) ==
    FrameDepth(stack) + (IF EarlierRuleApplies(field) THEN 1 ELSE 3)

\* resolved_message.fields[:3] (line 1169)
NestedFields(message) ==
    SubSeq(message.fields, 1, MinOf({NestedFieldLimit, Len(message.fields)}))

\* the value put under the field's name: wrapped in a list by
\* _generate_example_json for a repeated field (lines 1157-1160), as it is
\* by _get_nested_example_value (line 1171)
PutValue(stack, field, value) ==
    [stack EXCEPT ![Len(stack)].example =
         DictSet(@, field.name,
                 IF Len(stack) = 1 /\ field.label = "repeated"
                   THEN JsonArray(<<value>>) ELSE value),
                  ![Len(stack)].next = @ + 1]

\* a value that needs no further message: ExampleValue does not recurse
\* for it
LeafValue(field) ==
    IF EarlierRuleApplies(field) \/ ~ShouldExpandType(field.type)
         \/ ~Resolves(messages, field.type)
      THEN ExampleValue(field)
      ELSE JsonObject(EmptyDict)

\* generator._generate_example_json(message) is called for a message of a
\* schema file
ExampleStart ==
    /\ repo_pc = "done"
    /\ example_pc \in {"idle", "returned", "raised"}
    /\ \E i \in DOMAIN messages :
         /\ ~HasDot(messages[i].k)
         /\ messages[i].v.source_file \in DOMAIN fs
         /\ IF example_message = <<>> THEN TRUE ELSE example_message[1] # messages[i].v
         /\ example_message' = <<messages[i].v>>
         /\ example_stack' = <<ExampleFrame(messages[i].v.fields)>>
    /\ example_pc' = "run"
    /\ example_result' = <<>>
    /\ UNCHANGED <<braceVars, fs, unreadable, console, registryVars, ingest_log, repoVars,
                   graphVars, renderVars, mainVars>>

\* one iteration of the innermost loop whose field gives its value without
\* a further frame being kept: a deprecated field is skipped, a value is
\* put (lines 1151-1160, 1169-1171)
ExampleField ==
    /\ example_pc = "run"
    /\ LET top == example_stack[Len(example_stack)] IN
         /\ top.next <= Len(top.fields)
         /\ LET field == top.fields[top.next] IN
              /\ field.is_deprecated
                   \/ (~Descends(field)
                         /\ FramesNeeded(field, example_stack) <= MaxFrames)
              /\ example_stack' =
                   IF field.is_deprecated
                     THEN [example_stack EXCEPT ![Len(example_stack)].next = @ + 1]
                     ELSE PutValue(example_stack, field, LeafValue(field))
    /\ UNCHANGED <<braceVars, fs, unreadable, console, registryVars, ingest_log, repoVars,
                   graphVars, renderVars, mainVars, example_pc, example_message,
                   example_result>>

\* the field's value is the example of another message: the loop of
\* _get_nested_example_value over its first fields begins
ExampleDescend ==
    /\ example_pc = "run"
    /\ LET top == example_stack[Len(example_stack)] IN
         /\ top.next <= Len(top.fields)
         /\ LET field == top.fields[top.next] IN
              /\ ~field.is_deprecated
              /\ Descends(field)
              /\ FramesNeeded(field, example_stack) <= MaxFrames
              /\ example_stack' =
                   Append(example_stack,
                          ExampleFrame(NestedFields(ResolveTypeReference(field.type))))
    /\ UNCHANGED <<braceVars, fs, unreadable, console, registryVars, ingest_log, repoVars,
                   graphVars, renderVars, mainVars, example_pc, example_message,
                   example_result>>

\* the call chain has reached the recursion limit: RecursionError leaves
\* every pending frame and _generate_example_json itself
ExampleRaise ==
    /\ example_pc = "run"
    /\ LET top == example_stack[Len(example_stack)] IN
         /\ top.next <= Len(top.fields)
         /\ ~top.fields[top.next].is_deprecated
         /\ FramesNeeded(top.fields[top.next], example_stack) > MaxFrames
    /\ example_stack' = <<>>
    /\ example_pc' = "raised"
    /\ UNCHANGED <<braceVars, fs, unreadable, console, registryVars, ingest_log, repoVars,
                   graphVars, renderVars, mainVars, example_message, example_result>>

\* 'return nested_example' (line 1172): the dict becomes the value of the
\* field the outer loop is at
ExampleReturnNested ==
    /\ example_pc = "run"
    /\ Len(example_stack) > 1
    /\ LET top == example_stack[Len(example_stack)]
           outer == SubSeq(example_stack, 1, Len(example_stack) - 1)
       IN /\ top.next > Len(top.fields)
          /\ example_stack' =
               PutValue(outer, outer[Len(outer)].fields[outer[Len(outer)].next],
                        JsonObject(top.example))
    /\ UNCHANGED <<braceVars, fs, unreadable, console, registryVars, ingest_log, repoVars,
                   graphVars, renderVars, mainVars, example_pc, example_message,
                   example_result>>

\* 'return json.dumps(example, indent=2)' (line 1162)
ExampleReturn ==
    /\ example_pc = "run"
    /\ Len(example_stack) = 1
    /\ example_stack[1].next > Len(example_stack[1].fields)
    /\ example_result' = JsonDumps(JsonObject(example_stack[1].example), 0)
    /\ example_stack' = <<>>
    /\ example_pc' = "returned"
    /\ UNCHANGED <<braceVars, fs, unreadable, console, registryVars, ingest_log, repoVars,
                   graphVars, renderVars, mainVars, example_message>>

-----------------------------------------------------------------------------
(* Inputs of the example calls: the messages A and B of the other package  *)
(* refer to each other, to themselves, to C or to no message; the field of *)
(* A may be deprecated or be named item_id.                                *)

CycleItemFile ==
    [package |-> CloudPackage,
     decls |->
        << ServiceBlock("Items", << RpcDecl("GetItem", <<"Req">>, <<"Item">>, <<>>) >>),
           MessageBlock("Req", << FieldDecl("", <<"string">>, "display_name", ""),
                                  FieldDecl("repeated", Other("A"), "detail", "") >>, FALSE),
           MessageBlock("Item", OneField(<<"string">>, "display_name", ""), FALSE) >>]

CycleOtherFiles ==
    { [package |-> OtherPackage,
       decls |->
          << MessageBlock("A", OneField(tA, nA, oA), FALSE),
             MessageBlock("B", << FieldDecl("", <<"int32">>, "count", ""),
                                  FieldDecl("", tB, "y", "") >>, FALSE),
             MessageBlock("C", OneField(<<"string">>, "x", ""), FALSE) >>] :
        tA \in { Other("B"), Other("A"), Other("C"), <<"string">> },
        nA \in { "x", "item_id" },
        oA \in { "", "deprecated = true" },
        tB \in { Other("A"), Other("C"), <<"string">> } }

CycleFileSystems ==
    { (CloudPath :> CycleItemFile) @@ (OtherPath :> fo) : fo \in CycleOtherFiles }

\* a parser after parse_repository and a generator on it
ExampleInit ==
    /\ BraceIdle
    /\ fs \in CycleFileSystems
    /\ unreadable = {}
    /\ RegistryEmpty
    /\ ingest_log = <<>>
    /\ repo_pc = "walk"
    /\ walk_todo \in WalkOrders
    /\ pre_messages = EmptyDict
    /\ pre_enums = EmptyDict
    /\ requalified = 0
    /\ GenIdle
    /\ Silent

ExampleNext ==
    \/ WalkFile
    \/ AddWellKnownTypes
    \/ BuildQualifiedNames
    \/ ExampleStart
    \/ ExampleField
    \/ ExampleDescend
    \/ ExampleRaise
    \/ ExampleReturnNested
    \/ ExampleReturn

SpecExample == ExampleInit /\ [][ExampleNext]_vars

-----------------------------------------------------------------------------
(* Rendering.  A document is a sequence of lines, each line a text.  The   *)
(* extractor never sets the comment of a service or a method.              *)

\* html.escape of a string
EscapeOf(s) == StringOf(HtmlEscapeChars(Chars(s)))

\* a dotted name as the code holds it, a string with dots
DottedText(name) == Join(".", [i \in DOMAIN name |-> <<name[i]>>])

\* type_mapping (lines 1055-1063), keyed by the spelling of the type
TypeMapping ==
    << [k |-> Chars("string"), v |-> "string"],
       [k |-> Chars("int32"), v |-> "integer"],
       [k |-> Chars("int64"), v |-> "integer"],
       [k |-> Chars("bool"), v |-> "boolean"],
       [k |-> Chars("double"), v |-> "number"],
       [k |-> Chars("float"), v |-> "number"],
       [k |-> Chars("bytes"), v |-> "string (base64)"] >>

\* _is_external_type (lines 1085-1094)
IsExternalType(proto_type) ==
    GetTypePackage(proto_type) # NoName /\ GetTypePackage(proto_type) \notin MainPackages

\* A mutant of IsReferencedType: every type counts as documented.
IsReferencedTypeAlways(proto_type) == TRUE

\* _is_referenced_type (lines 1080-1083), the reference graph being cached
IsReferencedType(proto_type) == DictHas(CachedTypes, proto_type)

\* _format_type (lines 1053-1078)
FormatType(proto_type, create_links) ==
    LET base_type == Lower(Chars(LastSegment(proto_type)))
        formatted_type == IF DictHas(TypeMapping, base_type)
                            THEN <<DictGet(TypeMapping, base_type)>>
                            ELSE DottedText(proto_type)
    IN IF create_links /\ IsExternalType(proto_type) /\ IsReferencedType(proto_type)
         THEN <<"<a href=\"#ref-", LowerOf(LastSegment(proto_type)), "\">">>
              \o formatted_type \o <<"</a>">>
         ELSE formatted_type

\* field.comment or "No description available" (lines 546, 1013)
Description(field) ==
    IF field.comment # "" THEN field.comment ELSE "No description available"

\* the lines one iteration of the field loop appends (lines 535-553)
TableRows(field) ==
    IF field.is_deprecated THEN <<>>
    ELSE << <<"<tr>">>,
            <<"<td><code>", EscapeOf(field.name), "</code></td>">>,
            <<"<td>">>
              \o (IF field.label = "repeated"
                    THEN <<"Array&lt;">> \o FormatType(field.type, TRUE) \o <<"&gt;">>
                    ELSE FormatType(field.type, TRUE))
              \o <<"</td>">>,
            <<"<td>", IF field.label = "required" THEN "Yes" ELSE "No", "</td>">>,
            <<"<td>", EscapeOf(Description(field)), "</td>">>,
            <<"</tr>">> >>

\* _generate_html_message_docs (lines 514-558)
GenerateHtmlMessageDocs(message, is_request) ==
    IF message.fields = <<>>
      THEN << <<"<p>", IF is_request THEN "No parameters required." ELSE "Empty response.",
                "</p>">> >>
      ELSE << <<"<table>">>, <<"<thead>">>, <<"<tr>">>, <<"<th>Parameter</th>">>,
              <<"<th>Type</th>">>, <<"<th>Required</th>">>, <<"<th>Description</th>">>,
              <<"</tr>">>, <<"</thead>">>, <<"<tbody>">> >>
           \o ConcatAll([i \in DOMAIN message.fields |-> TableRows(message.fields[i])])
           \o << <<"</tbody>">>, <<"</table>">> >>

\* the verbs that carry a request body (lines 614, 663)
BodyVerbs == {"POST", "PUT", "PATCH"}

\* A mutant of HasExampleBody: the verb is not looked at.
HasExampleBodyAnyVerb(method) ==
    /\ method.input_type # NoName
    /\ DictHas(messages, method.input_type)
    /\ DictGet(messages, method.input_type).fields # <<>>

\* the request body of the examples: the verb carries one and the input
\* type is the key of a message with fields (lines 614-616, 663-665)
HasExampleBody(method) ==
    /\ method.http_method \in BodyVerbs
    /\ method.input_type # NoName
    /\ DictHas(messages, method.input_type)
    /\ DictGet(messages, method.input_type).fields # <<>>

\* A mutant of VerbFlag: the flag is put for every bound verb.
VerbFlagAlways(method) ==
    IF method.http_method # "" THEN << <<"-X ", UpperOf(method.http_method)>> >> ELSE <<>>

\* the -X part of the command (lines 649-650)
VerbFlag(method) ==
    IF method.http_method # "" /\ UpperOf(method.http_method) # "GET"
      THEN << <<"-X ", UpperOf(method.http_method)>> >>
      ELSE <<>>

\* curl_parts (lines 646-669)
CurlParts(method) ==
    << <<"curl">> >>
    \o VerbFlag(method)
    \o << <<"\"", "https://saas-api.tmprl.cloud", method.http_path, "\"">>,
          <<"-H \"Content-Type: application/json\"">>,
          <<"-H \"Authorization: Bearer YOUR_API_KEY\"">> >>
    \o (IF HasExampleBody(method)
          THEN << <<"-d '">>
                  \o MapText(ShellQuoteChars,
                             GenerateExampleJson(DictGet(messages, method.input_type)))
                  \o <<"'">> >>
          ELSE <<>>)

\* len(curl_parts) <= 3  (lines 672, 688)
OneLinerParts == 3

\* the lines of the command: one line, or one part a line with the
\* continuation mark (lines 672-679, 688-694)
CurlLines(parts) ==
    IF Len(parts) <= OneLinerParts THEN << Join(" ", parts) >>
    ELSE [i \in DOMAIN parts |->
            IF i = 1 THEN parts[1] \o <<" \\">>
            ELSE IF i < Len(parts) THEN <<"  ">> \o parts[i] \o <<" \\">>
            ELSE <<"  ">> \o parts[i]]

\* _generate_curl_example (lines 641-699)
GenerateCurlExample(method) ==
    LET method_id == LowerOf(method.name)
        lines == CurlLines(CurlParts(method))
    IN << <<"<div class=\"code-block-container\">">>,
          <<"<button class=\"copy-button\" data-copy-target=\"curl-code-", method_id,
            "\" title=\"Copy curl command\">Copy</button>">>,
          <<"<pre><code id=\"curl-code-", method_id, "\" data-curl-command=\"">>
            \o HtmlEscape(Join("\n", lines)) \o <<"\">">> >>
       \o [i \in DOMAIN lines |-> HtmlEscape(lines[i])]
       \o << <<"</code></pre>">>, <<"</div>">> >>

\* the tab buttons (lines 578-586)
TabButtons(method_id, has_http, has_response) ==
    (IF has_http
       THEN << <<"<button class=\"tab-button ", "active", "\" data-tab=\"curl-", method_id,
                 "\">curl</button>">>,
               <<"<button class=\"tab-button\" data-tab=\"http-", method_id,
                 "\">HTTP</button>">> >>
       ELSE <<>>)
    \o (IF has_response
          THEN << <<"<button class=\"tab-button ", IF has_http THEN "" ELSE "active",
                    "\" data-tab=\"response-", method_id, "\">Response</button>">> >>
          ELSE <<>>)

\* the curl pane (lines 597-602)
CurlPane(method) ==
    << <<"<div class=\"tab-pane ", "active", "\" id=\"curl-", LowerOf(method.name), "\">">> >>
    \o GenerateCurlExample(method)
    \o << <<"</div>">> >>

\* the HTTP request pane (lines 605-621)
HttpPane(method) ==
    << <<"<div class=\"tab-pane\" id=\"http-", LowerOf(method.name), "\">">>,
       <<"<pre><code>">>,
       <<EscapeOf(method.http_method), " ", EscapeOf(method.http_path)>>,
       <<"Content-Type: application/json">>,
       <<"Authorization: Bearer YOUR_API_KEY">>,
       <<>> >>
    \o (IF HasExampleBody(method)
          THEN << HtmlEscape(GenerateExampleJson(DictGet(messages, method.input_type))) >>
          ELSE <<>>)
    \o << <<"</code></pre>">>, <<"</div>">> >>

\* A mutant of ResponsePane: the pane is put whether or not the output
\* type is the key of a message, empty when it is not.
ResponsePaneUnchecked(method, has_http) ==
    IF method.output_type # NoName
      THEN << <<"<div class=\"tab-pane ", IF has_http THEN "" ELSE "active",
                "\" id=\"response-", LowerOf(method.name), "\">">>,
              <<"<pre><code>">>,
              IF DictHas(messages, method.output_type)
                THEN HtmlEscape(GenerateExampleJson(DictGet(messages, method.output_type)))
                ELSE <<"{}">>,
              <<"</code></pre>">>,
              <<"</div>">> >>
      ELSE <<>>

\* the response pane (lines 624-633)
ResponsePane(method, has_http) ==
    IF method.output_type # NoName /\ DictHas(messages, method.output_type)
      THEN << <<"<div class=\"tab-pane ", IF has_http THEN "" ELSE "active",
                "\" id=\"response-", LowerOf(method.name), "\">">>,
              <<"<pre><code>">>,
              HtmlEscape(GenerateExampleJson(DictGet(messages, method.output_type))),
              <<"</code></pre>">>,
              <<"</div>">> >>
      ELSE <<>>

\* _generate_html_example (lines 561-639)
GenerateHtmlExample(method) ==
    LET has_http == method.http_method # "" /\ method.http_path # ""
        has_response == method.output_type # NoName
    IN << <<"<div class=\"example-section\">">>, <<"<h4>Example</h4>">>,
          <<"<div class=\"tab-container\">">>, <<"<div class=\"tab-nav\">">> >>
       \o TabButtons(LowerOf(method.name), has_http, has_response)
       \o << <<"</div>">>, <<"<div class=\"tab-content\">">> >>
       \o (IF has_http THEN CurlPane(method) \o HttpPane(method) ELSE <<>>)
       \o ResponsePane(method, has_http)
       \o << <<"</div>">>, <<"</div>">>, <<"</div>">> >>

\* _generate_html_method_docs (lines 470-512)
GenerateHtmlMethodDocs(method, service) ==
    << <<"<div class=\"method-header\">">>,
       <<"<h3 id=\"", LowerOf(method.name), "\">", EscapeOf(method.name), "</h3>">>,
       <<"<button class=\"link-button\" data-anchor=\"", LowerOf(method.name),
         "\" title=\"Copy link to this method\">#</button>">>,
       <<"</div>">> >>
    \o (IF DictHas(packages, service.source_file)
          THEN << <<"<p><em>From package:</em> <code>">>
                  \o DottedText(DictGet(packages, service.source_file))
                  \o <<"</code></p>">> >>
          ELSE <<>>)
    \o (IF method.http_method # "" /\ method.http_path # ""
          THEN << <<"<div class=\"method-endpoint\">">>,
                  <<"<code>", EscapeOf(method.http_method), " ",
                    EscapeOf(method.http_path), "</code>">>,
                  <<"</div>">> >>
          ELSE <<>>)
    \o (IF DictHas(messages, method.input_type)
          THEN << <<"<h4>Request</h4>">> >>
               \o GenerateHtmlMessageDocs(DictGet(messages, method.input_type), TRUE)
          ELSE <<>>)
    \o (IF DictHas(messages, method.output_type)
          THEN << <<"<h4>Response</h4>">> >>
               \o GenerateHtmlMessageDocs(DictGet(messages, method.output_type), FALSE)
          ELSE <<>>)
    \o GenerateHtmlExample(method)
    \o << <<"<div class=\"method-divider\"></div>">> >>

-----------------------------------------------------------------------------
(* The Types navigation of the sidebar and the Types appendix               *)

\* the characters of identifiers in the order of their code points
CodePointOrder ==
    <<"0", "1", "2", "3", "4", "5", "6", "7", "8", "9",
      "A", "B", "C", "D", "E", "F", "G", "H", "I", "J", "K", "L", "M",
      "N", "O", "P", "Q", "R", "S", "T", "U", "V", "W", "X", "Y", "Z",
      "_",
      "a", "b", "c", "d", "e", "f", "g", "h", "i", "j", "k", "l", "m",
      "n", "o", "p", "q", "r", "s", "t", "u", "v", "w", "x", "y", "z">>

Ord(c) == CHOOSE i \in DOMAIN CodePointOrder : CodePointOrder[i] = c

\* a < b on strings of identifier characters, as Python compares them
StrLess(a, b) ==
    LET ca == Chars(a)
        cb == Chars(b)
        differ == { i \in 1 .. MinOf({Len(ca), Len(cb)}) : ca[i] # cb[i] }
    IN IF differ = {} THEN Len(ca) < Len(cb)
       ELSE Ord(ca[MinOf(differ)]) < Ord(cb[MinOf(differ)])

\* the entries whose simple name no earlier entry has ("seen_simple_names",
\* lines 421-428 and 965-974)
FirstOfEachSimpleName(entries) ==
    LET keep == { i \in DOMAIN entries :
                    \A j \in 1 .. i - 1 : entries[j].simple # entries[i].simple }
    IN [n \in 1 .. Cardinality(keep) |-> entries[Nth(keep, n)]]

\* list.sort by simple name, of entries with distinct simple names
SortBySimpleName(entries) ==
    [n \in DOMAIN entries |->
       entries[CHOOSE i \in DOMAIN entries :
                 Cardinality({ j \in DOMAIN entries :
                                 StrLess(entries[j].simple, entries[i].simple) }) = n - 1]]

\* the items of the reference graph as (simple name, type name, entity,
\* package), in the order of the dict
GraphItems(rt) ==
    [i \in DOMAIN rt |-> [simple |-> LastSegment(rt[i].k), type_name |-> rt[i].k,
                          entity |-> rt[i].v.entity, package |-> rt[i].v.package]]

\* all_types of _generate_sidebar (lines 420-431)
SidebarTypes(rt) == SortBySimpleName(FirstOfEachSimpleName(GraphItems(rt)))

\* the packages of the graph in the order they first occur (the keys of
\* the dict "packages", lines 947-951)
PackagesInOrder(rt) ==
    LET first == { i \in DOMAIN rt :
                     \A j \in 1 .. i - 1 : rt[j].v.package # rt[i].v.package }
    IN [n \in 1 .. Cardinality(first) |-> rt[Nth(first, n)].v.package]

\* the items grouped by package: the packages in order, each with its
\* items in the order of the dict (lines 947-951, 968-969)
GroupedItems(rt) ==
    ConcatAll([p \in DOMAIN PackagesInOrder(rt) |->
                 SelectSeq(GraphItems(rt),
                           LAMBDA item : item.package = PackagesInOrder(rt)[p])])

\* all_types of _generate_flat_types_list (lines 964-977)
AppendixTypes(rt) == SortBySimpleName(FirstOfEachSimpleName(GroupedItems(rt)))

\* the Services navigation of one service (lines 402-412); the service is
\* registered under its simple name
ServiceNav(service_name, service) ==
    << <<"<li class=\"nav-item\">">>,
       <<"<a href=\"#", LowerOf(service_name), "\" class=\"nav-link\">", service_name,
         "</a>">>,
       <<"<ul class=\"nav-sublist\">">> >>
    \o ConcatAll([i \in DOMAIN service.methods |->
          << <<"<li>">>,
             <<"<a href=\"#", LowerOf(service.methods[i].name), "\" class=\"nav-sublink\">",
               service.methods[i].name, "</a>">>,
             <<"</li>">> >>])
    \o << <<"</ul>">>, <<"</li>">> >>

\* the Types navigation (lines 417-439), absent when the graph is empty
TypesNav(rt) ==
    IF rt = EmptyDict THEN <<>>
    ELSE << <<"<h2>Types</h2>">>, <<"<ul class=\"nav-list\">">> >>
         \o ConcatAll([i \in DOMAIN SidebarTypes(rt) |->
               << <<"<li>">>,
                  <<"<a href=\"#ref-", LowerOf(SidebarTypes(rt)[i].simple),
                    "\" class=\"nav-sublink\">", SidebarTypes(rt)[i].simple, "</a>">>,
                  <<"</li>">> >>])
         \o << <<"</ul>">> >>

\* _generate_sidebar (lines 391-450), the graph being rt
GenerateSidebar(rt) ==
    << <<"<nav class=\"sidebar\">">>,
       <<"<div class=\"sidebar-content\">">>,
       <<"<div class=\"search-container\">">>,
       <<"<input type=\"text\" class=\"search-input\" id=\"searchInput\" placeholder=\"Search services and types...\">">>,
       <<"<div class=\"search-results\" id=\"searchResults\"></div>">>,
       <<"</div>">>,
       <<"<h2>Services</h2>">>,
       <<"<ul class=\"nav-list\">">> >>
    \o ConcatAll([i \in DOMAIN services |->
                    ServiceNav(LastSegment(services[i].k), services[i].v)])
    \o << <<"</ul>">> >>
    \o TypesNav(rt)
    \o << <<"</div>">>, <<"</nav>">> >>

\* isinstance(type_obj, ProtoMessage)
IsMessage(entity) == "fields" \in DOMAIN entity

\* the rows of one field in the appendix (lines 1006-1020)
TypeFieldRows(field) ==
    IF field.is_deprecated THEN <<>>
    ELSE << <<"<tr>">>,
            <<"<td><code>", EscapeOf(field.name), "</code></td>">>,
            <<"<td>">>
              \o (IF field.label = "repeated"
                    THEN <<"Array&lt;">> \o FormatType(field.type, TRUE) \o <<"&gt;">>
                    ELSE FormatType(field.type, TRUE))
              \o <<"</td>">>,
            <<"<td>", EscapeOf(Description(field)), "</td>">>,
            <<"</tr>">> >>

\* sorted(type_obj.values.items(), key=lambda x: x[1]): by number, items
\* of equal number in the order of the dict
SortedValues(values) ==
    [n \in DOMAIN values |->
       values[CHOOSE i \in DOMAIN values :
                Cardinality({ j \in DOMAIN values :
                                \/ values[j].v < values[i].v
                                \/ values[j].v = values[i].v /\ j < i }) = n - 1]]

\* the number of an enum value as str() shows it
NumberText(n) == <<"0", "1", "2", "3", "4", "5", "6", "7", "8", "9">>[n + 1]

\* the body of one appendix entry: the table of a message (lines 993-1024)
\* or of an enum (lines 1027-1048)
TypeBody(entity) ==
    IF IsMessage(entity)
      THEN IF entity.fields # <<>>
             THEN << <<"<table>">>, <<"<thead>">>, <<"<tr>">>, <<"<th>Field</th>">>,
                     <<"<th>Type</th>">>, <<"<th>Description</th>">>, <<"</tr>">>,
                     <<"</thead>">>, <<"<tbody>">> >>
                  \o ConcatAll([i \in DOMAIN entity.fields |->
                                  TypeFieldRows(entity.fields[i])])
                  \o << <<"</tbody>">>, <<"</table>">> >>
             ELSE << <<"<p>No fields defined.</p>">> >>
    ELSE IF entity.values # EmptyDict
      THEN << <<"<p><strong>Enum Values:</strong></p>">>, <<"<table>">>, <<"<thead>">>,
              <<"<tr>">>, <<"<th>Name</th>">>, <<"<th>Value</th>">>, <<"</tr>">>,
              <<"</thead>">>, <<"<tbody>">> >>
           \o ConcatAll([i \in DOMAIN entity.values |->
                 << <<"<tr>">>,
                    <<"<td><code>", EscapeOf(SortedValues(entity.values)[i].k),
                      "</code></td>">>,
                    <<"<td>", NumberText(SortedValues(entity.values)[i].v), "</td>">>,
                    <<"</tr>">> >>])
           \o << <<"</tbody>">>, <<"</table>">> >>
    ELSE << <<"<p>No enum values defined.</p>">> >>

\* one entry of the appendix (lines 979-1051)
TypeEntry(item) ==
    << <<"<div class=\"type-header\">">>,
       <<"<h4 id=\"", "ref-", LowerOf(item.simple), "\">", EscapeOf(item.simple), "</h4>">>,
       <<"<button class=\"link-button\" data-anchor=\"", "ref-", LowerOf(item.simple),
         "\" title=\"Copy link to this type\">#</button>">>,
       <<"</div>">>,
       <<"<p><em>From package:</em> <code>">> \o DottedText(item.package)
         \o <<"</code></p>">> >>
    \o (IF IsMessage(item.entity) /\ item.entity.comment # ""
          THEN << <<"<p>", EscapeOf(item.entity.comment), "</p>">> >>
          ELSE <<>>)
    \o TypeBody(item.entity)
    \o << <<"<div style=\"margin-bottom: 2rem;\"></div>">> >>

\* _generate_types_section with _generate_flat_types_list (lines 936-1051)
GenerateTypesSection(rt) ==
    IF rt = EmptyDict THEN <<>>
    ELSE << <<"<div class=\"content-section\">">>,
            <<"<h2 id=\"types\">Types</h2>">>,
            <<"<p>This section documents all types from external packages used in the CloudService API.</p>">> >>
         \o ConcatAll([i \in DOMAIN AppendixTypes(rt) |-> TypeEntry(AppendixTypes(rt)[i])])
         \o << <<"</div>">> >>

\* the fallback templates (lines 347-355), used when the templates
\* directory holds no file of the name
FallbackHead(title) ==
    <<"<!DOCTYPE html><html><head><meta charset=\"UTF-8\"><title>", title,
      "</title></head><body><div class=\"container\">">>

FallbackFooter(javascript) == <<"</div><script>", javascript, "</script></body></html>">>

FallbackScript == "// Fallback JavaScript"

\* the warning _load_template prints (line 344)
TemplateWarning(template_name) ==
    <<"Warning: Template ", template_name, " not found, using fallback">>

-----------------------------------------------------------------------------
(* generate_html (lines 357-390): the head, the sidebar, which makes the    *)
(* first call of _collect_referenced_types, the service sections, one      *)
(* action per service header, method and service footer, the Types         *)
(* appendix and the footer.                                                *)

\* generate_html begins: the three templates are loaded, none of them on
\* disk, and the head is appended (lines 359-369)
GenerateStart ==
    /\ main_pc = "generate"
    /\ render_pc = "ready"
    /\ console' = console \o << TemplateWarning("html_head.html"),
                                TemplateWarning("html_footer.html"),
                                TemplateWarning("scripts.js") >>
    /\ doc' = Append(doc, FallbackHead("Temporal Cloud Ops API Reference"))
    /\ render_pc' = "sidebar"
    /\ UNCHANGED <<mainVars, braceVars, fs, unreadable, registryVars, ingest_log, repoVars,
                   graphVars, exampleVars, service_todo, method_todo, rendered>>

\* _generate_sidebar, once its call of _collect_referenced_types has
\* returned (line 372)
Sidebar ==
    /\ render_pc = "sidebar"
    /\ graph_pc = "done"
    /\ doc' = doc \o GenerateSidebar(CachedTypes)
    /\ render_pc' = "main"
    /\ UNCHANGED <<mainVars, braceVars, fs, unreadable, console, registryVars, ingest_log,
                   repoVars, graphVars, exampleVars, service_todo, method_todo, rendered>>

\* the title, and the loop over self.parser.services.items() begins
\* (lines 375-381)
ServicesStart ==
    /\ render_pc = "main"
    /\ doc' = doc \o << <<"<main class=\"main-content\">">>,
                        <<"<div class=\"content-section\">">>,
                        <<"<h1>Temporal Cloud Ops API Reference</h1>">>,
                        <<"</div>">> >>
    /\ service_todo' = [i \in DOMAIN services |-> services[i].k]
    /\ render_pc' = "services"
    /\ UNCHANGED <<mainVars, braceVars, fs, unreadable, console, registryVars, ingest_log, repoVars, graphVars, exampleVars,
                   method_todo, rendered>>

\* _generate_html_service_docs up to its method loop (lines 454-462)
ServiceDocsStart ==
    /\ render_pc = "services"
    /\ service_todo # <<>>
    /\ LET service == DictGet(services, Head(service_todo)) IN
         /\ doc' = doc \o << <<"<div class=\"content-section\">">>,
                             <<"<h2 id=\"", LowerOf(service.name), "\">",
                               EscapeOf(service.name), "</h2>">> >>
         /\ method_todo' = service.methods
    /\ render_pc' = "methods"
    /\ UNCHANGED <<mainVars, braceVars, fs, unreadable, console, registryVars, ingest_log, repoVars, graphVars, exampleVars,
                   service_todo, rendered>>

\* one iteration of the method loop (lines 463-464)
MethodDocs ==
    /\ render_pc = "methods"
    /\ method_todo # <<>>
    /\ LET service == DictGet(services, Head(service_todo))
           lines == GenerateHtmlMethodDocs(Head(method_todo), service)
       IN /\ doc' = doc \o lines
          /\ rendered' = Append(rendered,
                                [service |-> Head(service_todo),
                                 method |-> Head(method_todo),
                                 first |-> Len(doc) + 1,
                                 last |-> Len(doc) + Len(lines)])
    /\ method_todo' = Tail(method_todo)
    /\ UNCHANGED <<mainVars, braceVars, fs, unreadable, console, registryVars, ingest_log, repoVars, graphVars, exampleVars,
                   render_pc, service_todo>>

\* _generate_html_service_docs after its method loop (lines 466-468)
ServiceDocsEnd ==
    /\ render_pc = "methods"
    /\ method_todo = <<>>
    /\ doc' = Append(doc, <<"</div>">>)
    /\ service_todo' = Tail(service_todo)
    /\ render_pc' = "services"
    /\ UNCHANGED <<mainVars, braceVars, fs, unreadable, console, registryVars, ingest_log, repoVars, graphVars, exampleVars,
                   method_todo, rendered>>

\* the loop over the services is through
ServicesDone ==
    /\ render_pc = "services"
    /\ service_todo = <<>>
    /\ render_pc' = "types"
    /\ UNCHANGED <<mainVars, braceVars, fs, unreadable, console, registryVars, ingest_log, repoVars, graphVars, exampleVars,
                   service_todo, method_todo, doc, rendered>>

\* _generate_types_section (line 385), the graph coming from the cache
TypesSection ==
    /\ render_pc = "types"
    /\ doc' = doc \o GenerateTypesSection(CachedTypes)
    /\ render_pc' = "footer"
    /\ UNCHANGED <<mainVars, braceVars, fs, unreadable, console, registryVars, ingest_log,
                   repoVars, graphVars, exampleVars, service_todo, method_todo, rendered>>

\* the footer; generate_html returns the lines joined (lines 388-390)
Footer ==
    /\ render_pc = "footer"
    /\ doc' = Append(doc, FallbackFooter(FallbackScript))
    /\ render_pc' = "done"
    /\ UNCHANGED <<mainVars, braceVars, fs, unreadable, console, registryVars, ingest_log,
                   repoVars, graphVars, exampleVars, service_todo, method_todo, rendered>>

-----------------------------------------------------------------------------
(* Inputs of the rendering: the greeter schema alone, or an item service   *)
(* under a path that holds 'cloudservice' next to a file of another        *)
(* package.  The HTTP binding of the item rpc and the options of the       *)
(* request fields vary.  Field names are distinct within a message.        *)

DemoPath == "demo.proto"

GreeterFile ==
    [package |-> <<"demo">>,
     decls |->
        << ServiceBlock("Greeter",
               << RpcDecl("SayHello", <<"HelloRequest">>, <<"HelloReply">>, <<>>) >>),
           MessageBlock("HelloRequest", OneField(<<"string">>, "name", ""), FALSE),
           MessageBlock("HelloReply", OneField(<<"string">>, "message", ""), FALSE) >>]

HttpBindings ==
    { <<>> }
    \cup { <<HttpEntry(kw, " ", path)>> :
             kw \in Range(HttpVerbs),
             path \in {"/v1/items/{id}", "/v1/items?a=1&b=2"} }

FieldOptions == {"", "deprecated = true"}

ItemFiles ==
    { [package |-> CloudPackage,
       decls |->
          << ServiceBlock("Items", << RpcDecl("GetItem", <<"Req">>, <<"Item">>, http) >>),
             MessageBlock("Req",
                 << FieldDecl("", <<"string">>, "item_id", o1),
                    FieldDecl("", Other("A"), "detail", o2),
                    FieldDecl("repeated", <<"int32">>, "count", o3) >>, FALSE),
             MessageBlock("Item",
                 << FieldDecl("", <<"string">>, "display_name", ""),
                    FieldDecl("", <<"string">>, "note", "deprecated = true"),
                    FieldDecl("", <<"google", "protobuf", "Timestamp">>, "created", ""),
                    FieldDecl("repeated", <<"string">>, "tags", "") >>, FALSE) >>] :
        http \in HttpBindings,
        o1 \in FieldOptions, o2 \in FieldOptions,
        o3 \in FieldOptions \cup {"packed = true"} }

DetailFile ==
    [package |-> OtherPackage,
     decls |->
        << MessageBlock("A",
               << FieldDecl("", <<"string">>, "x", ""),
                  FieldDecl("", <<"int64">>, "y", "deprecated = true") >>, FALSE) >>]

\* both schemas side by side: two services
TwoServiceFiles ==
    (DemoPath :> GreeterFile)
      @@ (CloudPath :> (CHOOSE fc \in ItemFiles : fc.decls[1].rpcs[1].http = <<>>))
      @@ (OtherPath :> DetailFile)

\* the types of the fields of the link schema: a message of the service's
\* own package, a message of another package by its qualified and by its
\* simple name, a name nothing declares, a built-in the graph admits and
\* one it leaves out
LinkFieldTypes ==
    { <<"Item">>, Other("A"), <<"A">>, Other("Missing"),
      <<"google", "protobuf", "Timestamp">>, <<"google", "protobuf", "Empty">> }

\* the item service with a request of two fields of those types
LinkFiles ==
    { [package |-> CloudPackage,
       decls |->
          << ServiceBlock("Items", << RpcDecl("GetItem", <<"Req">>, <<"Item">>, <<>>) >>),
             MessageBlock("Req",
                 << FieldDecl("", t1, "first", ""),
                    FieldDecl("repeated", t2, "second", "") >>, FALSE),
             MessageBlock("Item", OneField(<<"string">>, "display_name", ""), FALSE) >>] :
        t1 \in LinkFieldTypes, t2 \in LinkFieldTypes }

\* the bindings of the second rpc of the gap schema
GapBindings ==
    { <<>>, <<HttpEntry("get", " ", "/v1/items")>>, <<HttpEntry("post", " ", "/v1/items")>>,
      <<HttpEntry("put", " ", "/v1/items/{id}")>> }

\* a service of two rpcs: the first with declared types, the second with an
\* input or an output type that may be a name nothing declares
GapFiles ==
    { [package |-> CloudPackage,
       decls |->
          << ServiceBlock("Items",
                 << RpcDecl("GetItem", <<"Req">>, <<"Item">>,
                            <<HttpEntry("post", " ", "/v1/items")>>),
                    RpcDecl("PutItem", input, output, http) >>),
             MessageBlock("Req", OneField(<<"string">>, "item_id", ""), FALSE),
             MessageBlock("Item", OneField(<<"string">>, "display_name", ""), FALSE) >>] :
        input \in {<<"Req">>, <<"Nope">>}, output \in {<<"Item">>, <<"Gone">>},
        http \in GapBindings }

\* a bound rpc whose request is declared with nothing but blanks between
\* its braces, so that it is registered with an empty field list
EmptyRequestFiles ==
    { [package |-> CloudPackage,
       decls |->
          << ServiceBlock("Items",
                 << RpcDecl("GetItem", <<"Req">>, <<"Item">>, <<HttpEntry(kw, " ", "/v1/items")>>) >>),
             MessageBlock("Req", <<>>, FALSE),
             MessageBlock("Item", OneField(<<"string">>, "display_name", ""), FALSE) >>] :
        kw \in Range(HttpVerbs) }

\* the types of the one field of the value schema: the scalars, the built-in
\* timestamp, a message of another package, an enum and a name nothing
\* declares
ValueFieldTypes ==
    { <<t>> : t \in BasicTypes }
    \cup { <<"google", "protobuf", "Timestamp">>, Other("A"), <<"Kind">>, <<"Nope">> }

\* its names
ValueFieldNames == {"item_id", "owner_email", "display_name", "note", "email_id", "Name"}

\* a POST rpc whose request has one field
ValueFiles ==
    { [package |-> CloudPackage,
       decls |->
          << ServiceBlock("Items",
                 << RpcDecl("GetItem", <<"Req">>, <<"Item">>,
                            <<HttpEntry("post", " ", "/v1/items")>>) >>),
             MessageBlock("Req", <<FieldDecl(l, t, n, "")>>, FALSE),
             MessageBlock("Item", OneField(<<"string">>, "display_name", ""), FALSE),
             EnumBlock("Kind", <<[name |-> "UNKNOWN", number |-> 0]>>, FALSE) >>] :
        l \in {"", "repeated"}, t \in ValueFieldTypes, n \in ValueFieldNames }

\* a POST rpc whose request holds one field of the message A of the other
\* package, under a name no rule of the example values catches
NestedRequestFile ==
    [package |-> CloudPackage,
     decls |->
        << ServiceBlock("Items",
               << RpcDecl("GetItem", <<"Req">>, <<"Item">>,
                          <<HttpEntry("post", " ", "/v1/items")>>) >>),
           MessageBlock("Req", OneField(Other("A"), "detail", ""), FALSE),
           MessageBlock("Item", OneField(<<"string">>, "display_name", ""), FALSE) >>]

\* the other package with A of four fields, any of them deprecated, the
\* third a scalar or the message B
NestedDetailFiles ==
    { [package |-> OtherPackage,
       decls |->
          << MessageBlock("A",
                 << FieldDecl("", <<"string">>, "x", o1),
                    FieldDecl("", <<"int64">>, "y", o2),
                    FieldDecl("", t, "z", o3),
                    FieldDecl("", <<"string">>, "w", o4) >>, FALSE),
             MessageBlock("B", OneField(<<"string">>, "v", ""), FALSE) >>] :
        o1 \in FieldOptions, o2 \in FieldOptions, o3 \in FieldOptions, o4 \in FieldOptions,
        t \in {<<"bool">>, Other("B")} }

NestedFileSystems ==
    { (CloudPath :> NestedRequestFile) @@ (OtherPath :> fd) : fd \in NestedDetailFiles }

DocsFileSystems ==
    { (DemoPath :> GreeterFile), TwoServiceFiles }
    \cup NestedFileSystems
    \cup { (CloudPath :> fc) @@ (OtherPath :> DetailFile) :
              fc \in ItemFiles \cup LinkFiles \cup GapFiles \cup ValueFiles
                      \cup EmptyRequestFiles }

\* the values of --service: not given, a service of the greeter schema, and
\* a name no schema declares
ServiceArgs == {"", "Greeter", "Billing"}

\* main() (lines 1234-1257): a parser, parse_repository, then a generator
\* and generate_html
DocsInit ==
    /\ BraceIdle
    /\ fs \in DocsFileSystems
    /\ unreadable = {}
    /\ args_service \in ServiceArgs
    /\ main_pc = "filter"
    /\ exit_status = <<>>
    /\ output_files = EmptyDict
    /\ Silent
    /\ RegistryEmpty
    /\ ingest_log = <<>>
    /\ repo_pc = "walk"
    /\ walk_todo \in WalkOrders
    /\ pre_messages = EmptyDict
    /\ pre_enums = EmptyDict
    /\ requalified = 0
    /\ graph_pc = "ready"
    /\ seed_todo = <<>>
    /\ call_stack = <<>>
    /\ referenced_types = EmptyDict
    /\ referenced_types_cache = NoCache
    /\ generator = 1
    /\ collect_calls = <<>>
    /\ ExampleIdle
    /\ render_pc = "ready"
    /\ service_todo = <<>>
    /\ method_todo = <<>>
    /\ doc = <<>>
    /\ rendered = <<>>

DocsNext ==
    \/ WalkFile
    \/ AddWellKnownTypes
    \/ BuildQualifiedNames
    \/ FilterService
    \/ GenerateStart
    \/ CollectStart
    \/ Seed
    \/ VisitField
    \/ ReturnFromMessage
    \/ CollectDone
    \/ Sidebar
    \/ ServicesStart
    \/ ServiceDocsStart
    \/ MethodDocs
    \/ ServiceDocsEnd
    \/ ServicesDone
    \/ TypesSection
    \/ Footer
    \/ WriteOutput

SpecDocs == DocsInit /\ [][DocsNext]_vars

-----------------------------------------------------------------------------
(* Inputs of the service filter: the greeter schema, whose reply may refer *)
(* to other.v1.B, next to the item service, whose request refers to        *)
(* other.v1.A or other.v1.B, and the file of the other package, in which A *)
(* refers to C.                                                            *)

FilterGreeterFiles ==
    { [package |-> <<"demo">>,
       decls |->
          << ServiceBlock("Greeter",
                 << RpcDecl("SayHello", <<"HelloRequest">>, <<"HelloReply">>, <<>>) >>),
             MessageBlock("HelloRequest", OneField(<<"string">>, "name", ""), FALSE),
             MessageBlock("HelloReply", OneField(tr, "detail", ""), FALSE) >>] :
        tr \in { Other("B"), <<"string">> } }

FilterItemFiles ==
    { [package |-> CloudPackage,
       decls |->
          << ServiceBlock("Items", << RpcDecl("GetItem", <<"Req">>, <<"Item">>, <<>>) >>),
             MessageBlock("Req", OneField(tq, "detail", ""), FALSE),
             MessageBlock("Item", OneField(<<"string">>, "display_name", ""), FALSE) >>] :
        tq \in { Other("A"), Other("B") } }

FilterOtherFile ==
    [package |-> OtherPackage,
     decls |->
        << MessageBlock("A", OneField(Other("C"), "x", ""), FALSE),
           MessageBlock("B", OneField(<<"string">>, "x", ""), FALSE),
           MessageBlock("C", OneField(<<"string">>, "x", ""), FALSE) >>]

FilterFileSystems ==
    { (DemoPath :> fg) @@ (CloudPath :> fi) @@ (OtherPath :> FilterOtherFile) :
        fg \in FilterGreeterFiles, fi \in FilterItemFiles }

\* the values of --service: not given, either service, and a name no
\* schema declares
FilterArgs == {"", "Greeter", "Items", "Billing"}

\* main() (lines 1234-1257) with --service
FilterInit ==
    /\ BraceIdle
    /\ fs \in FilterFileSystems
    /\ unreadable = {}
    /\ args_service \in FilterArgs
    /\ main_pc = "filter"
    /\ exit_status = <<>>
    /\ output_files = EmptyDict
    /\ Silent
    /\ RegistryEmpty
    /\ ingest_log = <<>>
    /\ repo_pc = "walk"
    /\ walk_todo \in WalkOrders
    /\ pre_messages = EmptyDict
    /\ pre_enums = EmptyDict
    /\ requalified = 0
    /\ graph_pc = "ready"
    /\ seed_todo = <<>>
    /\ call_stack = <<>>
    /\ referenced_types = EmptyDict
    /\ referenced_types_cache = NoCache
    /\ generator = 1
    /\ collect_calls = <<>>
    /\ ExampleIdle
    /\ render_pc = "ready"
    /\ service_todo = <<>>
    /\ method_todo = <<>>
    /\ doc = <<>>
    /\ rendered = <<>>

SpecFilter == FilterInit /\ [][DocsNext]_vars

-----------------------------------------------------------------------------
(* Inputs in which type names of the reference graph share a simple name:  *)
(* the request of the item service refers to K as other.v1.K, as more.v1.K *)
(* or as K; the file of package other.v1 declares the messages B and K,    *)
(* the file of package more.v1 an enum or a message K.                     *)

MorePath == "more/v1/more.proto"
MorePackage == <<"more", "v1">>

More(n) == Dotted(MorePackage, Simple(n))

DedupItemFiles ==
    { [package |-> CloudPackage,
       decls |->
          << ServiceBlock("Items", << RpcDecl("GetItem", <<"Req">>, <<"Item">>, <<>>) >>),
             MessageBlock("Req",
                 << FieldDecl("", t1, "first", ""),
                    FieldDecl("", t2, "second", ""),
                    FieldDecl("", t3, "detail", "") >>, FALSE),
             MessageBlock("Item", OneField(<<"string">>, "display_name", ""), FALSE) >>] :
        t1 \in { Other("B"), More("K") },
        t2 \in { More("K"), Other("K") },
        t3 \in { Other("K"), More("K"), <<"K">> } }

DedupOtherFile ==
    [package |-> OtherPackage,
     decls |->
        << MessageBlock("B", OneField(<<"string">>, "x", ""), FALSE),
           MessageBlock("K", OneField(<<"string">>, "y", ""), FALSE) >>]

DedupMoreFiles ==
    { [package |-> MorePackage,
       decls |-> << EnumBlock("K", <<[name |-> "UNKNOWN", number |-> 0]>>, FALSE) >>],
      [package |-> MorePackage,
       decls |-> << MessageBlock("K", OneField(<<"string">>, "from_more", ""), FALSE) >>] }

DedupFileSystems ==
    { (CloudPath :> fc) @@ (OtherPath :> DedupOtherFile) @@ (MorePath :> fm) :
        fc \in DedupItemFiles, fm \in DedupMoreFiles }

\* main() (lines 1234-1257) without --service
DedupInit ==
    /\ BraceIdle
    /\ fs \in DedupFileSystems
    /\ unreadable = {}
    /\ args_service = ""
    /\ main_pc = "filter"
    /\ exit_status = <<>>
    /\ output_files = EmptyDict
    /\ Silent
    /\ RegistryEmpty
    /\ ingest_log = <<>>
    /\ repo_pc = "walk"
    /\ walk_todo \in WalkOrders
    /\ pre_messages = EmptyDict
    /\ pre_enums = EmptyDict
    /\ requalified = 0
    /\ graph_pc = "ready"
    /\ seed_todo = <<>>
    /\ call_stack = <<>>
    /\ referenced_types = EmptyDict
    /\ referenced_types_cache = NoCache
    /\ generator = 1
    /\ collect_calls = <<>>
    /\ ExampleIdle
    /\ render_pc = "ready"
    /\ service_todo = <<>>
    /\ method_todo = <<>>
    /\ doc = <<>>
    /\ rendered = <<>>

SpecDedup == DedupInit /\ [][DocsNext]_vars


\* every well-formed declaration counts
AnyBlock(b) == TRUE

\* the methods of a service whose braces all close: one for each rpc the
\* rpc pattern matches, in order
RECURSIVE ParseRpcs(_)
ParseRpcs(rs) ==
    IF rs = <<>> THEN <<>>
    ELSE IF RpcPatternMatches(Head(rs))
           THEN <<ParseRpc(Head(rs))>> \o ParseRpcs(Tail(rs))
           ELSE ParseRpcs(Tail(rs))

\* the declarations the extractor's patterns match
RecognisedBlock(b) ==
    \/ b.kind = "service"
    \/ MessagePatternMatches(b)
    \/ EnumPatternMatches(b)

\* the blocks of file that declare name as a block of the given kind
DeclIndexes(file, kind, name, Counts(_)) ==
    { i \in DOMAIN file.decls :
        /\ file.decls[i].kind = kind
        /\ file.decls[i].name = name
        /\ Counts(file.decls[i]) }

\* the parse_file calls whose file declares name
DeclaringCalls(kind, name, Counts(_)) ==
    { c \in DOMAIN ingest_log :
        DeclIndexes(fs[ingest_log[c].path], kind, name, Counts) # {} }

\* the last declaration of name in the most recent call that declared it
LastDeclaration(kind, name, Counts(_)) ==
    LET c == MaxOf(DeclaringCalls(kind, name, Counts))
        file == fs[ingest_log[c].path]
    IN [call |-> c,
        block |-> file.decls[MaxOf(DeclIndexes(file, kind, name, Counts))]]

DeclaredNames(kind, Counts(_)) ==
    UNION { { fs[ingest_log[c].path].decls[i].name :
                i \in { j \in DOMAIN fs[ingest_log[c].path].decls :
                          /\ fs[ingest_log[c].path].decls[j].kind = kind
                          /\ Counts(fs[ingest_log[c].path].decls[j]) } } :
            c \in DOMAIN ingest_log }

\* the entity was constructed by call c of the log, from that call's file
CreatedByCall(entity, c) ==
    /\ entity.source_file = ingest_log[c].path
    /\ entity.oid >= ingest_log[c].first_oid
    /\ c < Len(ingest_log) => entity.oid < ingest_log[c + 1].first_oid

\* a lookup of every declared name gives the entity the most recent
\* declaring call constructed, with that declaration's content only
LastWriteWins(Counts(_)) ==
    /\ \A n \in DeclaredNames("message", Counts) :
         LET d == LastDeclaration("message", n, Counts) IN
         /\ DictHas(messages, Simple(n))
         /\ CreatedByCall(DictGet(messages, Simple(n)), d.call)
         /\ DictGet(messages, Simple(n)).fields = ParseFields(d.block.fields)
    /\ \A n \in DeclaredNames("enum", Counts) :
         LET d == LastDeclaration("enum", n, Counts) IN
         /\ DictHas(enums, Simple(n))
         /\ CreatedByCall(DictGet(enums, Simple(n)), d.call)
         /\ DictGet(enums, Simple(n)).values = ParseValues(d.block.values)
    /\ \A n \in DeclaredNames("service", Counts) :
         LET d == LastDeclaration("service", n, Counts) IN
         /\ DictHas(services, Simple(n))
         /\ CreatedByCall(DictGet(services, Simple(n)), d.call)
         /\ DictGet(services, Simple(n)).methods = ParseRpcs(d.block.rpcs)

\* C2: after any sequence of parse_file calls, a simple-name lookup in the
\* services, messages or enums gives the entity created by the most recent
\* ingestion that declared the name, carrying that declaration's content only.
C2_LastWriteWins == LastWriteWins(AnyBlock)

\* The same lookup property over the declarations the extractor's patterns
\* match: it leaves out "message N {}" and "enum N {}", which line 271 and
\* line 308 do not match.
C2_RecognisedLastWriteWins == LastWriteWins(RecognisedBlock)

\* a name declared by two calls, the later one from the other file
C2_TwoDeclaringCalls ==
    /\ Len(ingest_log) >= 2
    /\ ingest_log[1].path # ingest_log[2].path
    /\ {1, 2} \subseteq DeclaringCalls("message", "X", RecognisedBlock)

\* the four built-in types are each under both keys, as one object
BuiltinsQualified ==
    \A i \in DOMAIN WellKnown :
        /\ DictHas(messages, Simple(WellKnown[i].name))
        /\ DictHas(messages, WellKnown[i].qualified)
        /\ DictGet(messages, Simple(WellKnown[i].name)).oid
             = DictGet(messages, WellKnown[i].qualified).oid
        /\ DictGet(messages, Simple(WellKnown[i].name)).source_file = WellKnown[i].file

\* every type the mapping holds under a simple name, whose source file has a
\* recorded package, is also under "<package>.<simple name>", as one object
SimpleKeysQualified(mapping) ==
    \A i \in DOMAIN mapping :
        LET simple == mapping[i].k
            entity == mapping[i].v
        IN (~HasDot(simple) /\ DictHas(packages, entity.source_file)) =>
             LET qualified == Dotted(DictGet(packages, entity.source_file), simple) IN
             /\ DictHas(mapping, qualified)
             /\ DictGet(mapping, qualified).oid = entity.oid
             /\ DictGet(mapping, qualified) = entity

\* the name of every recognised declaration of the kind in a file with a
\* package is a key, and so is "<package>.<name>", of one object
DeclaredTypesQualified(mapping, Matches(_)) ==
    \A filepath \in DOMAIN fs :
        LET file == fs[filepath] IN
        file.package # NoName =>
            \A i \in DOMAIN file.decls :
                Matches(file.decls[i]) =>
                    LET n == Simple(file.decls[i].name)
                        q == Dotted(file.package, n)
                    IN /\ DictHas(mapping, n)
                       /\ DictHas(mapping, q)
                       /\ DictGet(mapping, n).oid = DictGet(mapping, q).oid

\* C4 (as amended): after parse_repository, every message or enum the registry
\* holds under a simple name, whose source file has a package recorded, is
\* also addressable by "<package>.<simple name>", and both keys map to the
\* identical object; so is every built-in type.
C4_QualifiedSharesEntity ==
    repo_pc = "done" =>
        /\ SimpleKeysQualified(messages)
        /\ SimpleKeysQualified(enums)
        /\ BuiltinsQualified

\* a type read from a file with a package is under both keys after
\* parse_repository
C4_Witness ==
    /\ repo_pc = "done"
    /\ requalified = 0
    /\ DictHas(messages, Simple("X"))
    /\ DictGet(messages, Simple("X")).source_file = "a.proto"
    /\ DictHas(messages, <<"pa", "X">>)
    /\ DictGet(messages, <<"pa", "X">>).oid = DictGet(messages, Simple("X")).oid
    /\ DictHas(enums, <<"pb", "E">>)

\* C4 (as claimed): after parse_repository, every message or enum declared in
\* an ingested file that has a package is addressable by its simple name and
\* by "<package>.<simple name>", both keys mapping to the identical object.
C4_EveryDeclaredTypeQualified ==
    repo_pc = "done" =>
        /\ DeclaredTypesQualified(messages, MessagePatternMatches)
        /\ DeclaredTypesQualified(enums, EnumPatternMatches)
        /\ BuiltinsQualified

\* C3: running _build_qualified_names again on the registry parse_repository
\* left gives the message and enum mappings the same keys and the same
\* key-to-entity values as before.
C3_QualificationIdempotent ==
    requalified > 0 =>
        /\ DictKeys(messages) = DictKeys(pre_messages)
        /\ \A qn \in DictKeys(pre_messages) :
               DictGet(messages, qn) = DictGet(pre_messages, qn)
        /\ DictKeys(enums) = DictKeys(pre_enums)
        /\ \A qn \in DictKeys(pre_enums) :
               DictGet(enums, qn) = DictGet(pre_enums, qn)

\* What a re-run does keep: every key present before keeps its entity.
C3_RerunKeepsExistingKeys ==
    requalified > 0 =>
        /\ \A qn \in DictKeys(pre_messages) :
               DictHas(messages, qn) /\ DictGet(messages, qn) = DictGet(pre_messages, qn)
        /\ \A qn \in DictKeys(pre_enums) :
               DictHas(enums, qn) /\ DictGet(enums, qn) = DictGet(pre_enums, qn)


-----------------------------------------------------------------------------
(* Per-file failures of the walk *)

\* the step of the walk that attempts the file at the head of walk_todo
AttemptsHead == repo_pc = "walk" /\ walk_todo # <<>> /\ walk_todo' = Tail(walk_todo)

\* the four mappings are what they were
RegistryKept ==
    /\ messages' = messages
    /\ services' = services
    /\ enums' = enums
    /\ packages' = packages

\* the walk went through every file and parse_repository ran to its end with
\* the built-ins seeded and qualified
WalkCompleted ==
    /\ walk_todo = <<>>
    /\ { ingest_log[c].path : c \in DOMAIN ingest_log } = DOMAIN fs
    /\ \A i \in DOMAIN WellKnown :
          /\ DictHas(messages, Simple(WellKnown[i].name))
          /\ DictHas(messages, WellKnown[i].qualified)

\* the files whose ingestion failed, in the order of the walk
FailedPaths == SelectSeq([c \in DOMAIN ingest_log |-> ingest_log[c].path], ParseFileRaises)

\* C13 (as claimed): a file whose ingestion fails does not abort the walk: a
\* warning is printed, the registry is left exactly as it was before that
\* file was attempted, every other file is still ingested, and seeding and
\* qualification run afterwards.
C13_FailedFileLeavesRegistryAsItWas ==
    /\ [][AttemptsHead /\ ParseFileRaises(Head(walk_todo)) =>
            /\ RegistryKept
            /\ console' = Append(console, ParseWarning(Head(walk_todo)))]_vars
    /\ [](repo_pc = "done" => WalkCompleted)

\* What holds of every failure: the warning is printed, the walk goes on to
\* the end, seeding and qualification run; and a file that cannot be read
\* leaves the registry as it was.
C13_FailureReportedWalkContinues ==
    /\ [][AttemptsHead /\ ParseFileRaises(Head(walk_todo)) =>
            /\ console' = Append(console, ParseWarning(Head(walk_todo)))
            /\ Head(walk_todo) \in unreadable => RegistryKept]_vars
    /\ [][AttemptsHead /\ ~ParseFileRaises(Head(walk_todo)) =>
            /\ console' = console
            /\ Registry' = ParseFileOn(Registry, Head(walk_todo))]_vars
    /\ [](repo_pc = "done" =>
            /\ WalkCompleted
            /\ console = [i \in DOMAIN FailedPaths |-> ParseWarning(FailedPaths[i])])

\* parse_repository finished over a tree with an unreadable file and a file
\* whose second message has a field number that does not convert
C13_Witness ==
    /\ repo_pc = "done"
    /\ unreadable # {}
    /\ unreadable # DOMAIN fs
    /\ \E p \in DOMAIN fs \ unreadable : FirstRaising(fs[p].decls) # 0
    /\ Len(console) = 2

\* the file failing at its second message left its service and its first
\* message behind
C13_PartialFileRegistered ==
    /\ repo_pc = "done"
    /\ unreadable = {}
    /\ \E p \in DOMAIN fs :
          /\ FirstRaising(fs[p].decls) # 0
          /\ DictHas(messages, <<"pb", "X">>)
          /\ ~DictHas(messages, <<"Z">>)

-----------------------------------------------------------------------------
(* Unmatched braces in service blocks *)

\* the service blocks of the readable files whose name no other service
\* block of the tree bears
LoneServiceBlocks ==
    { pb \in UNION { { <<p, i>> : i \in DOMAIN fs[p].decls } : p \in DOMAIN fs \ unreadable } :
        /\ fs[pb[1]].decls[pb[2]].kind = "service"
        /\ \A q \in DOMAIN fs : \A j \in DOMAIN fs[q].decls :
              (fs[q].decls[j].kind = "service" /\ <<q, j>> # pb)
                 => fs[q].decls[j].name # fs[pb[1]].decls[pb[2]].name }

\* the rpcs of a block that have their closing brace
ClosedRpcs(b) == SelectSeq(b.rpcs, LAMBDA r : r.closed)

\* every brace of the block, its own and those of its rpcs, is closed
AllBracesClosed(b) == b.closed /\ \A i \in DOMAIN b.rpcs : b.rpcs[i].closed

\* no warning was printed for the file
IngestedQuietly(p) == \A k \in DOMAIN console : console[k] # ParseWarning(p)

C20_UnmatchedBraceLosesTheService ==
    repo_pc = "done" =>
        \A pb \in LoneServiceBlocks :
            LET b == fs[pb[1]].decls[pb[2]] IN
            /\ FirstRaising(fs[pb[1]].decls) = 0 => IngestedQuietly(pb[1])
            /\ ~AllBracesClosed(b) => ~DictHas(services, Simple(b.name))
            /\ AllBracesClosed(b) =>
                 /\ DictHas(services, Simple(b.name))
                 /\ DictGet(services, Simple(b.name)).methods = ParseRpcs(b.rpcs)
                 /\ DictGet(services, Simple(b.name)).source_file = pb[1]

\* a file was ingested whose service S has its closing brace while its first
\* rpc has none: S is not registered, the service T after it is
C20_ServiceLostToRpcBrace ==
    /\ repo_pc = "done"
    /\ \E pb \in LoneServiceBlocks :
          LET b == fs[pb[1]].decls[pb[2]] IN
          /\ b.closed
          /\ ~b.rpcs[1].closed
          /\ b.rpcs[2].closed
          /\ pb[2] = 1
          /\ ~DictHas(services, Simple(b.name))
          /\ DictHas(services, <<"T">>)
          /\ Len(DictGet(services, <<"T">>).methods) = 1
          /\ console = <<>>

\* a file was ingested whose service S lacks its closing brace, its rpcs
\* being well-formed: S is not registered, the service T after it is
C20_UnclosedServiceSkipped ==
    /\ repo_pc = "done"
    /\ \E pb \in LoneServiceBlocks :
          LET b == fs[pb[1]].decls[pb[2]] IN
          /\ ~b.closed
          /\ b.rpcs # <<>>
          /\ \A i \in DOMAIN b.rpcs : b.rpcs[i].closed
          /\ pb[2] = 1
          /\ ~DictHas(services, Simple(b.name))
          /\ DictHas(services, <<"T">>)
          /\ console = <<>>

-----------------------------------------------------------------------------
(* The order of the steps of parse_repository *)

\* every file of the tree has been attempted
AllFilesAttempted ==
    walk_todo = <<>> /\ { ingest_log[c].path : c \in DOMAIN ingest_log } = DOMAIN fs

\* the built-ins are registered, under their simple and their qualified key
BuiltinsSeeded ==
    \A i \in DOMAIN WellKnown :
        /\ DictHas(messages, Simple(WellKnown[i].name))
        /\ DictHas(messages, WellKnown[i].qualified)

\* no built-in is registered
NoBuiltinSeeded ==
    \A i \in DOMAIN WellKnown : ~DictHas(messages, WellKnown[i].qualified)

\* a type read from a file of the tree is held under a qualified key: only
\* qualification writes such a key, the patterns read simple names
QualifiedKeyOfAFile ==
    \/ \E i \in DOMAIN messages :
          HasDot(messages[i].k) /\ messages[i].v.source_file \in DOMAIN fs
    \/ \E i \in DOMAIN enums :
          HasDot(enums[i].k) /\ enums[i].v.source_file \in DOMAIN fs

\* C21: in every run of parse_repository the files are ingested first, then
\* the built-ins are seeded, then qualification runs: while files are left
\* no built-in is registered and no type of a file has a qualified key;
\* seeding happens with every file attempted; qualification happens with
\* every file attempted and the built-ins registered; and after
\* qualification no file is ingested any more.
C21_IngestSeedQualify ==
    /\ [](walk_todo # <<>> => NoBuiltinSeeded /\ ~QualifiedKeyOfAFile /\ repo_pc = "walk")
    /\ [](QualifiedKeyOfAFile => repo_pc = "done" /\ AllFilesAttempted /\ BuiltinsSeeded)
    /\ [][(NoBuiltinSeeded /\ ~NoBuiltinSeeded') => AllFilesAttempted /\ ingest_log' = ingest_log]_vars
    /\ [][repo_pc' = "done" =>
            /\ AllFilesAttempted
            /\ BuiltinsSeeded
            /\ ingest_log' = ingest_log
            /\ walk_todo' = walk_todo]_vars

\* parse_repository ran to its end over two readable files that both
\* declare a type in a package: both were ingested, the built-ins are
\* seeded and the types of the files are qualified
C21_Witness ==
    /\ repo_pc = "done"
    /\ unreadable = {}
    /\ Len(ingest_log) = 2
    /\ BuiltinsSeeded
    /\ \A p \in DOMAIN fs :
          \/ \E i \in DOMAIN messages :
                HasDot(messages[i].k) /\ messages[i].v.source_file = p
          \/ \E i \in DOMAIN enums :
                HasDot(enums[i].k) /\ enums[i].v.source_file = p

-----------------------------------------------------------------------------
(* Seeding before or after the files *)

\* a mapping as the set of its keys with their entities, two entities being
\* equal when their content is (the object and the file it came from are
\* not compared)
KeyedContent(mapping) ==
    { <<mapping[i].k, [mapping[i].v EXCEPT !.oid = 0, !.source_file = ""]>> :
        i \in DOMAIN mapping }

\* two registries hold the same keys with equal entities
SameRegistry(r1, r2) ==
    /\ KeyedContent(r1.messages) = KeyedContent(r2.messages)
    /\ KeyedContent(r1.enums) = KeyedContent(r2.enums)
    /\ KeyedContent(r1.services) = KeyedContent(r2.services)
    /\ { <<r1.packages[i].k, r1.packages[i].v>> : i \in DOMAIN r1.packages }
         = { <<r2.packages[i].k, r2.packages[i].v>> : i \in DOMAIN r2.packages }

\* the registry parse_repository leaves for the files, in the order they
\* were ingested here
SeededAfter ==
    ParseRepositoryOn([messages |-> EmptyDict, services |-> EmptyDict, enums |-> EmptyDict,
                       packages |-> EmptyDict, next_oid |-> 1],
                      [c \in DOMAIN ingest_log |-> ingest_log[c].path])

\* a file of the tree declares a message under the simple name of a built-in
DeclaresBuiltinName ==
    \E p \in DOMAIN fs : \E i \in DOMAIN fs[p].decls : \E w \in DOMAIN WellKnown :
        /\ MessagePatternMatches(fs[p].decls[i])
        /\ fs[p].decls[i].name = WellKnown[w].name

\* C22 (as claimed): for every set of schema files, seeding the built-ins
\* before ingesting the files and seeding them after give, once
\* qualification has run, the same registry: the same keys mapped to equal
\* entities.
C22_SeedingOrderIndependent ==
    repo_pc = "done" => SameRegistry(Registry, SeededAfter)

\* What holds: the two orders give the same registry for the trees in which
\* no file declares a message under the simple name of a built-in.
C22_SameUnlessBuiltinNameDeclared ==
    (repo_pc = "done" /\ ~DeclaresBuiltinName) => SameRegistry(Registry, SeededAfter)

\* seeded first, a tree whose file declares its own Timestamp was ingested
\* and qualified: Timestamp is the message of the file, which has its
\* qualified key, while seeding afterwards leaves the built-in there
C22_DeclaredTimestampKept ==
    /\ repo_pc = "done"
    /\ DictGet(messages, <<"Timestamp">>).source_file \in DOMAIN fs
    /\ DictHas(messages, <<"pa", "Timestamp">>)
    /\ DictGet(SeededAfter.messages, <<"Timestamp">>).source_file \notin DOMAIN fs
    /\ ~DictHas(SeededAfter.messages, <<"pa", "Timestamp">>)

\* seeded first, a tree of two files with declarations in packages was
\* ingested and qualified to the registry parse_repository gives
C22_SameForOtherNames ==
    /\ repo_pc = "done"
    /\ ~DeclaresBuiltinName
    /\ \E i \in DOMAIN messages : HasDot(messages[i].k) /\ messages[i].v.source_file \in DOMAIN fs
    /\ SameRegistry(Registry, SeededAfter)
-----------------------------------------------------------------------------
(* C25 *)

\* the entries of the rpc's binding block written  body: "<mask>"  with
\* nothing but blanks between the colon and the quote
PlainBodyEntries(rpc) ==
    { i \in DOMAIN rpc.http :
        rpc.http[i].kw = "body" /\ IsWhitespace(Chars(rpc.http[i].sep)) }

\* the rpcs of the registered service S as a.proto declares them, each with
\* the method extracted from it
ExtractedFromBodyFile ==
    IF DictHas(services, Simple("S"))
         /\ DictGet(services, Simple("S")).source_file = "a.proto"
      THEN { [rpc |-> fs["a.proto"].decls[1].rpcs[k],
              method |-> DictGet(services, Simple("S")).methods[k]] :
             k \in DOMAIN DictGet(services, Simple("S")).methods }
      ELSE {}

\* C25 (as claimed): a method extracted from an rpc whose binding block
\* holds  body: "<mask>"  has that mask as its body mask, and a method's body
\* mask is empty only when the block has no body entry.
C25_BodyMaskExtracted ==
    \A e \in ExtractedFromBodyFile :
        /\ \A i \in PlainBodyEntries(e.rpc) : e.method.http_body = e.rpc.http[i].path
        /\ e.method.http_body = "" =>
             \A i \in DOMAIN e.rpc.http : e.rpc.http[i].kw # "body"

\* What the code does: the body mask is taken from an entry only when a
\* backslash follows the colon; for body: "<mask>" it stays empty.
C25_BodyMaskNeedsBackslash ==
    \A e \in ExtractedFromBodyFile :
        /\ PlainBodyEntries(e.rpc) # {} /\ Len(e.rpc.http) = 2 => e.method.http_body = ""
        /\ e.method.http_body # "" =>
             \E i \in DOMAIN e.rpc.http :
                 /\ e.rpc.http[i].kw = "body"
                 /\ Chars(e.rpc.http[i].sep)[1] = "\\"
                 /\ e.method.http_body = e.rpc.http[i].path

\* the rpc is bound with  post: "/v1/items"  body: "*" , the verb and the
\* path are extracted and the body mask is empty
C25_PlainBodyLost ==
    \E e \in ExtractedFromBodyFile :
        /\ \E i \in PlainBodyEntries(e.rpc) : e.rpc.http[i].path = "*"
        /\ e.method.http_method = "POST"
        /\ e.method.http_path = "/v1/items"
        /\ e.method.http_body = ""

\* with the backslash and s written after the colon the mask is extracted
C25_BackslashBodyKept ==
    \E e \in ExtractedFromBodyFile :
        /\ e.method.http_body = "*"
        /\ \E i \in DOMAIN e.rpc.http : e.rpc.http[i].sep = "\\s"

-----------------------------------------------------------------------------
(* Reference graph properties *)

\* the package recorded for the file that declares the entity
OwningPackage(entity) ==
    IF DictHas(packages, entity.source_file)
      THEN DictGet(packages, entity.source_file)
      ELSE NoName

\* C5: the reference graph _collect_referenced_types returns holds no message
\* or enum whose owning package, the package of the file that declares the
\* entity it maps to, is a primary service package.
C5_GraphExcludesPrimaryPackage ==
    graph_pc = "done" =>
        \A i \in DOMAIN CachedTypes :
            OwningPackage(CachedTypes[i].v.entity) \notin MainPackages

\* What the filter does exclude: the package read off the type name as the
\* field wrote it (or, for an undotted name, of the first file with a message
\* block of that name) is no primary service package.
C5_NamedPackageNotPrimary ==
    \A i \in DOMAIN referenced_types :
        /\ referenced_types[i].v.package \notin MainPackages
        /\ referenced_types[i].v.package = GetTypePackage(referenced_types[i].k)

\* the messages the method signatures name
SeedMessages ==
    { DictGet(messages, t) :
        t \in { u \in Range(AllSignatureTypes(services)) : DictHas(messages, u) } }

\* the types of the fields a traversal may follow from the messages
FollowedTypes(msgs) ==
    UNION { { m.fields[i].type : i \in { j \in DOMAIN m.fields : ~m.fields[j].is_deprecated } } :
            m \in msgs }

\* the messages lying at depth d: the signature messages at depth 0, and one
\* level deeper per followed field reference
RECURSIVE MessagesAtDepth(_)
MessagesAtDepth(d) ==
    IF d = 0 THEN SeedMessages
    ELSE { ResolveTypeReference(t) :
             t \in { u \in FollowedTypes(MessagesAtDepth(d - 1)) : Resolves(messages, u) } }

\* the type names lying at depth 1 .. d
TypesWithin(d) == UNION { FollowedTypes(MessagesAtDepth(k - 1)) : k \in 1 .. d }

\* the entities the type names resolve to, a message before an enum
ResolvedEntities(types) ==
    { ResolveTypeReference(t) : t \in { u \in types : Resolves(messages, u) } }
    \cup { ResolveEnumReference(t) :
              t \in { u \in types : ~Resolves(messages, u) /\ Resolves(enums, u) } }

\* the graph's entities all lie at depth 1 .. d, under some name
GraphLiesWithin(graph, d) ==
    \A i \in DOMAIN graph : graph[i].v.entity \in ResolvedEntities(TypesWithin(d))

\* C6 (as claimed): no type lying deeper than depth 2 is in the reference
\* graph, a method's input or output message counting as depth 0 and each
\* followed field reference as one level deeper.
C6_NoTypeDeeperThanTwo ==
    graph_pc = "done" => GraphLiesWithin(CachedTypes, MaxDepth)

\* C6 (as amended): the traversal never expands a message lying deeper than
\* depth 2, reference cycles included; the types it adds are those of the
\* fields of the messages it expands, so no type lying deeper than depth 3
\* is ever added to the reference graph.
C6_NoTypeDeeperThanThree ==
    /\ \A i \in DOMAIN call_stack :
         /\ call_stack[i].depth <= MaxDepth
         /\ call_stack[i].depth = i - 1
    /\ DictKeys(referenced_types) \subseteq TypesWithin(MaxDepth + 1)
    /\ GraphLiesWithin(referenced_types, MaxDepth + 1)

\* a chain Req -> A -> B -> C -> D: C, lying at depth 3 only, is in the graph
\* returned, and D, lying at depth 4, is not
C6_Witness ==
    /\ graph_pc = "done"
    /\ DictHas(CachedTypes, Other("C"))
    /\ Other("C") \notin TypesWithin(MaxDepth)
    /\ ~GraphLiesWithin(CachedTypes, MaxDepth)
    /\ Other("D") \in FollowedTypes({DictGet(CachedTypes, Other("C")).entity})
    /\ ~DictHas(CachedTypes, Other("D"))

\* a cycle A -> B -> A was traversed to its end
C6_CycleTraversed ==
    /\ graph_pc = "done"
    /\ DictHas(CachedTypes, Other("A"))
    /\ DictHas(CachedTypes, Other("B"))
    /\ Other("B") \in FollowedTypes({DictGet(CachedTypes, Other("A")).entity})
    /\ Other("A") \in FollowedTypes({DictGet(CachedTypes, Other("B")).entity})

-----------------------------------------------------------------------------
(* C23 *)

\* the position in collect_calls of the first call made on the generator
\* of the call at position i
FirstCallOf(i) ==
    MinOf({ j \in 1 .. i : collect_calls[j].generator = collect_calls[i].generator })

\* the message X of the further file refers to other.v1.E
ExtraRefersToE ==
    \E i \in DOMAIN fs[ExtraPath].decls :
        /\ fs[ExtraPath].decls[i].kind = "message"
        /\ \E k \in DOMAIN fs[ExtraPath].decls[i].fields :
               fs[ExtraPath].decls[i].fields[k].type = Other("E")

\* C23: the first call of _collect_referenced_types on a generator runs the
\* collection on the registry as it is then (in these inputs other.v1.E is
\* in the result exactly when the further file that refers to it was parsed
\* before), and every later call on that generator returns what the first
\* returned without running the collection, be the result empty or the
\* registry changed since.
C23_MemoizedPerGenerator ==
    \A i \in DOMAIN collect_calls :
        LET call == collect_calls[i]
            first == collect_calls[FirstCallOf(i)]
        IN IF FirstCallOf(i) = i
             THEN /\ call.computed
                  /\ DictHas(call.returned, Other("E"))
                       <=> (call.ingested = 3 /\ ExtraRefersToE)
             ELSE /\ ~call.computed
                  /\ call.returned = first.returned

\* a generator returned its first result again after the registry had
\* gained a service, and a generator constructed afterwards returned another
\* mapping
C23_Witness ==
    /\ Len(collect_calls) >= 3
    /\ collect_calls[1].generator = 1 /\ collect_calls[1].computed
    /\ collect_calls[2].generator = 1 /\ ~collect_calls[2].computed
    /\ collect_calls[2].ingested > collect_calls[1].ingested
    /\ collect_calls[2].returned = collect_calls[1].returned
    /\ collect_calls[3].generator = 2 /\ collect_calls[3].computed
    /\ collect_calls[3].returned # collect_calls[1].returned
    /\ DictHas(collect_calls[3].returned, Other("E"))

\* an empty first result is returned again, although the registry has since
\* gained a service whose signature leads to other.v1.E
C23_EmptyResultKept ==
    /\ Len(collect_calls) >= 2
    /\ collect_calls[1].returned = EmptyDict
    /\ collect_calls[2].generator = 1 /\ ~collect_calls[2].computed
    /\ collect_calls[2].returned = EmptyDict
    /\ collect_calls[2].ingested = 3
    /\ ExtraRefersToE

-----------------------------------------------------------------------------
(* Reading the rendered document *)

\* the characters a browser shows for HTML text: the five entities of
\* html.escape decoded
RECURSIVE HtmlUnescapeChars(_)
HtmlUnescapeChars(cs) ==
    IF cs = <<>> THEN <<>>
    ELSE IF StartsWith(cs, <<"&", "a", "m", "p", ";">>)
      THEN <<"&">> \o HtmlUnescapeChars(SubSeq(cs, 6, Len(cs)))
    ELSE IF StartsWith(cs, <<"&", "l", "t", ";">>)
      THEN <<"<">> \o HtmlUnescapeChars(SubSeq(cs, 5, Len(cs)))
    ELSE IF StartsWith(cs, <<"&", "g", "t", ";">>)
      THEN <<">">> \o HtmlUnescapeChars(SubSeq(cs, 5, Len(cs)))
    ELSE IF StartsWith(cs, <<"&", "q", "u", "o", "t", ";">>)
      THEN <<"\"">> \o HtmlUnescapeChars(SubSeq(cs, 7, Len(cs)))
    ELSE IF StartsWith(cs, <<"&", "#", "x", "2", "7", ";">>)
      THEN <<"'">> \o HtmlUnescapeChars(SubSeq(cs, 7, Len(cs)))
    ELSE <<Head(cs)>> \o HtmlUnescapeChars(Tail(cs))

\* the text shown for a line of the document, decoded piece by piece: no
\* entity of the document lies across two pieces
Shown(line) == ConcatAll([i \in DOMAIN line |-> HtmlUnescapeChars(Chars(line[i]))])

\* the lines of a rendered method
BlockLines(r) == SubSeq(doc, r.first, r.last)

\* the first line of the block that begins with the piece, 0 if none
LineBeginning(lines, piece) ==
    LET found == { i \in DOMAIN lines : lines[i] # <<>> /\ lines[i][1] = piece }
    IN IF found = {} THEN 0 ELSE MinOf(found)

\* the first line of the block equal to the line, after position from
LineAfter(lines, from, line) ==
    LET found == { i \in DOMAIN lines : i > from /\ lines[i] = line }
    IN IF found = {} THEN 0 ELSE MinOf(found)

\* the rpc declaration a rendered method was read from
DeclaredRpc(r) ==
    LET file == fs[DictGet(services, r.service).source_file]
        block == file.decls[MaxOf({ i \in DOMAIN file.decls :
                                      /\ file.decls[i].kind = "service"
                                      /\ file.decls[i].name = LastSegment(r.service) })]
    IN block.rpcs[MinOf({ j \in DOMAIN block.rpcs : block.rpcs[j].name = r.method.name })]

\* the declaration binds the rpc to one verb and path
HasBinding(rpc) == Len(rpc.http) = 1 /\ rpc.http[1].kw \in Range(HttpVerbs)

\* the curl command as the curl tab shows it
CurlShown(r) ==
    LET lines == BlockLines(r)
        c == LineBeginning(lines, "<pre><code id=\"curl-code-")
        e == LineAfter(lines, c, <<"</code></pre>">>)
    IN Shown(Join("\n", SubSeq(lines, c + 1, e - 1)))

\* the first line of the HTTP tab
HttpTabFirstLine(r) ==
    BlockLines(r)[LineBeginning(BlockLines(r), "<div class=\"tab-pane\" id=\"http-") + 2]

HtmlSpecialChars == {"&", "<", ">", "\"", "'"}

\* C9: for every rendered method whose rpc declares an HTTP binding, the curl
\* command shown holds the flag -X <VERB> exactly when the bound verb is not
\* get (and no -X at all for get), and the first line of the HTTP tab shows
\* "<VERB> <path>", the verb in upper case and the path as bound; the line
\* is that text literally when the path holds no character HTML escapes.
C9_VerbFlagAndHttpLine ==
    \A k \in DOMAIN rendered :
        LET r == rendered[k]
            rpc == DeclaredRpc(r)
        IN HasBinding(rpc) =>
             LET verb == Upper(Chars(rpc.http[1].kw))
                 path == Chars(rpc.http[1].path)
             IN /\ Contains(Chars("-X ") \o verb, CurlShown(r)) <=> rpc.http[1].kw # "get"
                /\ rpc.http[1].kw = "get" => ~Contains(Chars("-X "), CurlShown(r))
                /\ Shown(HttpTabFirstLine(r)) = verb \o <<" ">> \o path
                /\ Range(path) \cap HtmlSpecialChars = {}
                     => Flatten(HttpTabFirstLine(r)) = verb \o <<" ">> \o path

\* the binding get: "/v1/items/{id}" was rendered: no -X flag, and the HTTP
\* tab begins with GET /v1/items/{id}
C9_Witness ==
    \E k \in DOMAIN rendered :
        /\ HasBinding(DeclaredRpc(rendered[k]))
        /\ DeclaredRpc(rendered[k]).http[1] = HttpEntry("get", " ", "/v1/items/{id}")
        /\ HttpTabFirstLine(rendered[k]) = <<"GET", " ", "/v1/items/{id}">>
        /\ ~Contains(Chars("-X "), CurlShown(rendered[k]))

\* a binding to another verb was rendered with its flag
C9_FlagShown ==
    \E k \in DOMAIN rendered :
        /\ DeclaredRpc(rendered[k]).http = <<HttpEntry("delete", " ", "/v1/items?a=1&b=2")>>
        /\ Contains(Chars("-X ") \o Chars("DELETE"), CurlShown(rendered[k]))
        /\ HttpTabFirstLine(rendered[k]) = <<"DELETE", " ", "/v1/items?a=1&amp;b=2">>

\* the declaration a registered message was read from: the last block of
\* its name that the extractor's pattern matches, in its source file
DeclaredFields(message) ==
    LET file == fs[message.source_file]
    IN file.decls[MaxOf({ i \in DOMAIN file.decls :
                            /\ MessagePatternMatches(file.decls[i])
                            /\ file.decls[i].name = message.name })].fields

\* the field's bracket options hold the marker deprecated = true
FlaggedDeprecated(fd) == Contains(Chars("deprecated = true"), Chars(fd.options))

\* the names of the declared fields without the marker, in declaration order
UnflaggedNames(message) ==
    LET kept == SelectSeq(DeclaredFields(message), LAMBDA fd : ~FlaggedDeprecated(fd))
    IN [i \in DOMAIN kept |-> kept[i].name]

\* the names in the rows of the parameter table under the heading, in order
TableNames(r, heading) ==
    LET lines == BlockLines(r)
        h == LineAfter(lines, 0, <<heading>>)
        e == IF lines[h + 1] = <<"<table>">> THEN LineAfter(lines, h, <<"</table>">>) ELSE h
        cells == SelectSeq(SubSeq(lines, h + 1, e),
                           LAMBDA l : l # <<>> /\ l[1] = "<td><code>")
    IN [i \in DOMAIN cells |-> StringOf(HtmlUnescapeChars(Chars(cells[i][2])))]

\* the keys of the top level of a JSON object in a line of the document:
\* the strings that begin a line indented by one level
TopLevelKeys(line) ==
    LET at == { i \in DOMAIN line :
                  /\ line[i] \in {"\n", ",\n"}
                  /\ i + 3 <= Len(line)
                  /\ line[i + 1] = "  "
                  /\ line[i + 2] = "&quot;" }
    IN [n \in 1 .. Cardinality(at) |->
          StringOf(HtmlUnescapeChars(Chars(line[Nth(at, n) + 3])))]

\* the position of the response pane in the block, 0 if there is none
ResponsePaneAt(lines) ==
    LET found == { i \in DOMAIN lines :
                     /\ Len(lines[i]) >= 3
                     /\ lines[i][1] = "<div class=\"tab-pane "
                     /\ lines[i][3] = "\" id=\"response-" }
    IN IF found = {} THEN 0 ELSE MinOf(found)

\* the example response of the block
ResponseJsonLine(r) == BlockLines(r)[ResponsePaneAt(BlockLines(r)) + 2]

\* the position of the request body in the HTTP tab, 0 if the tab is not
\* there or carries no body
RequestBodyAt(lines) ==
    LET h == LineBeginning(lines, "<div class=\"tab-pane\" id=\"http-")
    IN IF h = 0 \/ lines[h + 6] = <<"</code></pre>">> THEN 0 ELSE h + 6

\* C10: for every rendered method, the rows of the request table and of the
\* response table, and the keys of the example request body and of the
\* example response, are the names of the fields the message declares
\* without the deprecated marker, in declaration order: a field with the
\* marker appears in neither, every sibling in both.
C10_DeprecatedFieldsLeftOut ==
    \A k \in DOMAIN rendered :
        LET r == rendered[k]
            lines == BlockLines(r)
        IN /\ DictHas(messages, r.method.input_type) =>
                LET input == DictGet(messages, r.method.input_type) IN
                /\ TableNames(r, "<h4>Request</h4>") = UnflaggedNames(input)
                /\ RequestBodyAt(lines) # 0 =>
                     TopLevelKeys(lines[RequestBodyAt(lines)]) = UnflaggedNames(input)
           /\ DictHas(messages, r.method.output_type) =>
                LET output == DictGet(messages, r.method.output_type) IN
                /\ TableNames(r, "<h4>Response</h4>") = UnflaggedNames(output)
                /\ ResponsePaneAt(lines) # 0
                /\ TopLevelKeys(ResponseJsonLine(r)) = UnflaggedNames(output)

\* a request whose second field carries the marker was rendered with a
\* body: the table and the body hold the first and the third field only,
\* and the response leaves out its deprecated field too
C10_Witness ==
    \E k \in DOMAIN rendered :
        LET r == rendered[k]
            lines == BlockLines(r)
        IN /\ DictHas(messages, r.method.input_type)
           /\ Len(DeclaredFields(DictGet(messages, r.method.input_type))) = 3
           /\ [i \in 1 .. 3 |->
                 FlaggedDeprecated(DeclaredFields(DictGet(messages, r.method.input_type))[i])]
                = <<FALSE, TRUE, FALSE>>
           /\ TableNames(r, "<h4>Request</h4>") = <<"item_id", "count">>
           /\ RequestBodyAt(lines) # 0
           /\ TopLevelKeys(lines[RequestBodyAt(lines)]) = <<"item_id", "count">>
           /\ TableNames(r, "<h4>Response</h4>") = <<"display_name", "created", "tags">>
           /\ TopLevelKeys(ResponseJsonLine(r)) = <<"display_name", "created", "tags">>

\* a method of the greeter schema, service Greeter with
\* rpc SayHello(HelloRequest) returns (HelloReply), was rendered
GreeterRendered(r) == fs = (DemoPath :> GreeterFile) /\ r.method.name = "SayHello"

\* json.dumps of an object with the one member key: "value", as shown
OneMemberJson(key, value) ==
    Flatten(<<"{", "\n", "  ", "\"", key, "\"", ": ", "\"", value, "\"", "\n", "}">>)

\* C8 (as claimed): the example response rendered for HelloReply of the
\* greeter schema is the JSON object {"message": "example_name"}.
C8_HelloReplyExampleName ==
    \A k \in DOMAIN rendered :
        GreeterRendered(rendered[k]) =>
            Shown(ResponseJsonLine(rendered[k])) = OneMemberJson("message", "example_name")

\* C8 (as amended): the example response rendered for HelloReply of the
\* greeter schema is the JSON object {"message": "example_string"}: the
\* field is of type string, and the scalar default of the type comes before
\* the field-name rules.
C8_HelloReplyExampleString ==
    \A k \in DOMAIN rendered :
        GreeterRendered(rendered[k]) =>
            /\ Shown(ResponseJsonLine(rendered[k])) = OneMemberJson("message", "example_string")
            /\ ExampleOf(DictGet(messages, <<"HelloReply">>))
                 = <<[k |-> "message", v |-> JsonString(<<"example_string">>)]>>

\* the greeter schema was rendered with its example response
C8_Witness ==
    \E k \in DOMAIN rendered :
        /\ GreeterRendered(rendered[k])
        /\ ResponsePaneAt(BlockLines(rendered[k])) # 0
        /\ Shown(ResponseJsonLine(rendered[k])) = OneMemberJson("message", "example_string")


\* the piece that opens a link to an entry of the Types appendix
LinkOpening == "<a href=\"#ref-"

\* the targets of the links of a document, without the prefix ref-
LinkTargets(d) ==
    UNION { { d[i][j + 1] : j \in { n \in 1 .. Len(d[i]) - 1 : d[i][n] = LinkOpening } } :
            i \in DOMAIN d }

\* the anchors of the entries of the Types appendix, without the prefix
AppendixAnchors(d) ==
    { d[i][3] : i \in { n \in DOMAIN d : /\ Len(d[n]) >= 3
                                         /\ d[n][1] = "<h4 id=\""
                                         /\ d[n][2] = "ref-" } }

\* the type cells of the rows of the parameter table under the heading
TypeCells(r, heading) ==
    LET lines == BlockLines(r)
        h == LineAfter(lines, 0, <<heading>>)
        e == IF lines[h + 1] = <<"<table>">> THEN LineAfter(lines, h, <<"</table>">>) ELSE h
        at == { i \in h + 1 .. e : lines[i] # <<>> /\ lines[i][1] = "<td><code>" }
    IN [n \in 1 .. Cardinality(at) |-> lines[Nth(at, n) + 1]]

HasLink(cell) == \E j \in DOMAIN cell : cell[j] = LinkOpening

\* the cell of a field of the type links to the type's entry, or it is
\* plain text when the type is not in the reference graph
CellLinksSoundly(cell, type) ==
    /\ HasLink(cell) =>
         /\ DictHas(CachedTypes, type)
         /\ \A j \in DOMAIN cell :
              cell[j] = LinkOpening => cell[j + 1] = LowerOf(LastSegment(type))
    /\ ~DictHas(CachedTypes, type) =>
         /\ ~HasLink(cell)
         /\ \A j \in DOMAIN cell : cell[j] # "</a>"

\* every type cell of the message's table, under the heading, is sound
TableLinksSoundly(r, heading, message) ==
    LET kept == SelectSeq(message.fields, LAMBDA f : ~f.is_deprecated)
        cells == TypeCells(r, heading)
    IN /\ Len(cells) = Len(kept)
       /\ \A i \in DOMAIN kept : CellLinksSoundly(cells[i], kept[i].type)

\* C12: the finished document has no dangling type link: every link
\* '#ref-<name>' in it, in a parameter table, in the appendix or in the
\* navigation, has an entry of the Types appendix with the anchor id
\* 'ref-<name>'; the link in the cell of a field is to the lower-cased
\* simple name of the field's type, which is then in the reference graph;
\* and the cell of a field whose type is not in the reference graph is
\* plain text without a link.
C12_NoDanglingTypeLinks ==
    render_pc = "done" =>
        /\ LinkTargets(doc) \subseteq AppendixAnchors(doc)
        /\ \A k \in DOMAIN rendered :
             LET r == rendered[k] IN
             /\ DictHas(messages, r.method.input_type) =>
                  TableLinksSoundly(r, "<h4>Request</h4>",
                                    DictGet(messages, r.method.input_type))
             /\ DictHas(messages, r.method.output_type) =>
                  TableLinksSoundly(r, "<h4>Response</h4>",
                                    DictGet(messages, r.method.output_type))

\* a finished document whose request table links a field of a type of
\* another package to its appendix entry and shows a field of a type that
\* is not in the reference graph as plain text
C12_Witness ==
    /\ render_pc = "done"
    /\ \E k \in DOMAIN rendered :
         LET cells == TypeCells(rendered[k], "<h4>Request</h4>") IN
         /\ DictHas(messages, rendered[k].method.input_type)
         /\ Len(cells) = 2
         /\ cells[1] = <<"<td>", LinkOpening, "a", "\">", "other", ".", "v1", ".", "A",
                         "</a>", "</td>">>
         /\ cells[2] = <<"<td>", "Array&lt;", "Item", "&gt;", "</td>">>
    /\ "a" \in AppendixAnchors(doc)


-----------------------------------------------------------------------------
(* Methods whose input or output type is not a key of the registry *)

SectionHeadingLines == {<<"<h4>Request</h4>">>, <<"<h4>Response</h4>">>, <<"<h4>Example</h4>">>}

\* the section headings of a block, in order
SectionHeadings(lines) == SelectSeq(lines, LAMBDA l : l \in SectionHeadingLines)

\* the curl command of the block has a -d part
CurlHasBody(lines) ==
    \E i \in DOMAIN lines :
        Len(lines[i]) >= 2 /\ lines[i][1] = "  " /\ lines[i][2] = "-d &#x27;"

\* the headings a block is to have for the types that resolve
HeadingsFor(method) ==
    (IF DictHas(messages, method.input_type) THEN << <<"<h4>Request</h4>">> >> ELSE <<>>)
    \o (IF DictHas(messages, method.output_type) THEN << <<"<h4>Response</h4>">> >> ELSE <<>>)
    \o << <<"<h4>Example</h4>">> >>

\* the parts of a block that do not depend on the types: it opens with the
\* method header of its name, shows the endpoint and the curl and HTTP tabs
\* when the rpc is bound, and closes with the divider
FrameRendered(r) ==
    LET lines == BlockLines(r)
        bound == r.method.http_method # "" /\ r.method.http_path # ""
    IN /\ lines[1] = <<"<div class=\"method-header\">">>
       /\ lines[2] = <<"<h3 id=\"", LowerOf(r.method.name), "\">", r.method.name, "</h3>">>
       /\ lines[Len(lines)] = <<"<div class=\"method-divider\"></div>">>
       /\ (LineAfter(lines, 0, <<"<div class=\"method-endpoint\">">>) # 0) = bound
       /\ (LineBeginning(lines, "<pre><code id=\"curl-code-") # 0) = bound
       /\ (LineBeginning(lines, "<div class=\"tab-pane\" id=\"http-") # 0) = bound

\* C14: in the finished document, a method whose input type is not a key of
\* a message has no Request heading, no request table and no body in the
\* curl command or the HTTP tab; one whose output type is not a key has no
\* Response heading, no response table and no response pane.  The other
\* sections are there as for any method: the frame of the block, the
\* section of the type that does resolve with the rows of its fields (one
\* table for each resolving type that declares fields), and
\* the Example section; methods whose types both resolve have both sections.
C14_UnresolvedTypeOmitsSection ==
    render_pc = "done" =>
        \A k \in DOMAIN rendered :
            LET r == rendered[k]
                lines == BlockLines(r)
            IN /\ FrameRendered(r)
               /\ SectionHeadings(lines) = HeadingsFor(r.method)
               /\ Cardinality({ i \in DOMAIN lines : lines[i] = <<"<table>">> })
                    = Cardinality({ h \in {"input", "output"} :
                                      LET type == IF h = "input" THEN r.method.input_type
                                                  ELSE r.method.output_type
                                      IN /\ DictHas(messages, type)
                                         /\ DeclaredFields(DictGet(messages, type)) # <<>> })
               /\ ~DictHas(messages, r.method.input_type) =>
                    ~CurlHasBody(lines) /\ RequestBodyAt(lines) = 0
               /\ ~DictHas(messages, r.method.output_type) => ResponsePaneAt(lines) = 0
               /\ DictHas(messages, r.method.input_type) =>
                    TableNames(r, "<h4>Request</h4>")
                      = UnflaggedNames(DictGet(messages, r.method.input_type))
               /\ DictHas(messages, r.method.output_type) =>
                    /\ TableNames(r, "<h4>Response</h4>")
                         = UnflaggedNames(DictGet(messages, r.method.output_type))
                    /\ ResponsePaneAt(lines) # 0

\* a finished document with a bound method whose input type nothing declares
\* next to a method whose types both resolve, the first without a Request
\* section and body, the second with its body
C14_Witness ==
    /\ render_pc = "done"
    /\ \E k, n \in DOMAIN rendered :
          /\ rendered[k].method.http_method = "PUT"
          /\ ~DictHas(messages, rendered[k].method.input_type)
          /\ DictHas(messages, rendered[k].method.output_type)
          /\ SectionHeadings(BlockLines(rendered[k]))
               = << <<"<h4>Response</h4>">>, <<"<h4>Example</h4>">> >>
          /\ DictHas(messages, rendered[n].method.input_type)
          /\ CurlHasBody(BlockLines(rendered[n]))

\* a finished document with a method whose output type nothing declares
C14_OutputUnresolved ==
    /\ render_pc = "done"
    /\ \E k \in DOMAIN rendered :
          /\ DictHas(messages, rendered[k].method.input_type)
          /\ ~DictHas(messages, rendered[k].method.output_type)
          /\ SectionHeadings(BlockLines(rendered[k]))
               = << <<"<h4>Request</h4>">>, <<"<h4>Example</h4>">> >>

-----------------------------------------------------------------------------
(* The order of the example-value rules *)

\* the request of the rendered method declares one field, shown in the body
\* of the HTTP tab
OneFieldBodyShown(r) ==
    /\ DictHas(messages, r.method.input_type)
    /\ Len(DeclaredFields(DictGet(messages, r.method.input_type))) = 1
    /\ RequestBodyAt(BlockLines(r)) # 0

\* that field, as declared
BodyField(r) == DeclaredFields(DictGet(messages, r.method.input_type))[1]

\* the pieces of the value of the one member of the body: what stands
\* between  {"name":  and the closing brace
BodyValueShown(r) ==
    LET line == BlockLines(r)[RequestBodyAt(BlockLines(r))]
    IN SubSeq(line, 8, Len(line) - 2)

\* a string value as the document shows it
StringShown(text) == <<"&quot;">> \o text \o <<"&quot;">>

\* the first rule of the list that applies to the field: the type, then the
\* field's name, then whether the type is expandable
FirstRule(fd) ==
    LET base_type == Lower(Chars(LastSegment(fd.type)))
        name == Lower(Chars(fd.name))
    IN IF DictHas(TypeExamples, base_type) THEN 1
       ELSE IF Contains(Chars("timestamp"), base_type) THEN 2
       ELSE IF EndsWith(Chars(fd.name), Chars("_id")) THEN 3
       ELSE IF Contains(Chars("email"), name) THEN 4
       ELSE IF Contains(Chars("name"), name) THEN 5
       ELSE IF ShouldExpandType(fd.type) THEN 6
       ELSE 7

\* the value the rules 1 to 5 and 7 give, as shown
CannedShown(fd, rule) ==
    IF rule = 1
      THEN LET v == DictGet(TypeExamples, Lower(Chars(LastSegment(fd.type))))
           IN IF v.json = "string" THEN StringShown(v.text) ELSE v.text
    ELSE IF rule = 2 THEN StringShown(<<"2023-12-01T12:00:00Z">>)
    ELSE IF rule = 3 THEN StringShown(<<"unique_identifier_123">>)
    ELSE IF rule = 4 THEN StringShown(<<"user@example.com">>)
    ELSE IF rule = 5 THEN StringShown(<<"example_name">>)
    ELSE StringShown(<<"example_", fd.name>>)

\* the shown value is an object
ObjectShown(shown) == shown # <<>> /\ shown[1] \in {"{", "{}"}

\* the shown value is a one-element array: the item between the brackets
IsArrayShown(shown) ==
    /\ Len(shown) > 6
    /\ SubSeq(shown, 1, 4) = <<"[", "\n", "  ", "  ">>
    /\ SubSeq(shown, Len(shown) - 2, Len(shown)) = <<"\n", "  ", "]">>

ArrayItemShown(shown) == SubSeq(shown, 5, Len(shown) - 3)

\* the value of the field itself: the item of the array for a repeated
\* field, which must then be shown as a one-element array
FieldValueShown(r) ==
    IF BodyField(r).label = "repeated" THEN ArrayItemShown(BodyValueShown(r))
    ELSE BodyValueShown(r)

WrappedIffRepeated(r) ==
    BodyField(r).label = "repeated" => IsArrayShown(BodyValueShown(r))

\* C15 (as claimed): the value of a field is that of the first rule that
\* applies, in the order scalar type, timestamp type, name ending in _id,
\* name holding email, name holding name, a nested object when the type is
\* expandable, else example_<field name>; a repeated field's value is
\* wrapped as a one-element array.
C15_FirstRuleDecides ==
    \A k \in DOMAIN rendered :
        OneFieldBodyShown(rendered[k]) =>
            LET r == rendered[k]
                rule == FirstRule(BodyField(r))
            IN /\ WrappedIffRepeated(r)
               /\ IF rule = 6 THEN ObjectShown(FieldValueShown(r))
                  ELSE FieldValueShown(r) = CannedShown(BodyField(r), rule)

\* C15 (amended): as above, except that under rule (6) the value is a
\* nested object only when the expandable type resolves to a message; for
\* an expandable type that is not a message (an enum) it is the string
\* example_<simple type name in lower case>.
C15_FirstRuleDecidesEnumPlaceholder ==
    \A k \in DOMAIN rendered :
        OneFieldBodyShown(rendered[k]) =>
            LET r == rendered[k]
                fd == BodyField(r)
                rule == FirstRule(fd)
            IN /\ WrappedIffRepeated(r)
               /\ IF rule # 6 THEN FieldValueShown(r) = CannedShown(fd, rule)
                  ELSE IF Resolves(messages, fd.type) THEN ObjectShown(FieldValueShown(r))
                  ELSE FieldValueShown(r)
                         = StringShown(<<"example_", LowerOf(LastSegment(fd.type))>>)

\* a repeated field of a message type with a name no rule catches was
\* rendered: an array of one object
C15_Witness ==
    \E k \in DOMAIN rendered :
        /\ OneFieldBodyShown(rendered[k])
        /\ BodyField(rendered[k]).label = "repeated"
        /\ BodyField(rendered[k]).name = "note"
        /\ FirstRule(BodyField(rendered[k])) = 6
        /\ Resolves(messages, BodyField(rendered[k]).type)
        /\ IsArrayShown(BodyValueShown(rendered[k]))
        /\ ObjectShown(FieldValueShown(rendered[k]))

\* a field of an enum type with a name no rule catches was rendered
C15_EnumField ==
    \E k \in DOMAIN rendered :
        /\ OneFieldBodyShown(rendered[k])
        /\ BodyField(rendered[k]).type = <<"Kind">>
        /\ BodyField(rendered[k]).name = "note"
        /\ BodyValueShown(rendered[k]) = StringShown(<<"example_", "kind">>)

-----------------------------------------------------------------------------
(* The request body of the examples *)

\* the verbs the claim gives a body
VerbsWithBody == {"POST", "PUT", "PATCH"}

\* the method's input type is the key of a message declared with fields
InputHasFields(r) ==
    /\ DictHas(messages, r.method.input_type)
    /\ DeclaredFields(DictGet(messages, r.method.input_type)) # <<>>

\* C16: in every rendered method, the curl command has a -d part, and the
\* HTTP tab a body line, exactly when the method's verb is POST, PUT or
\* PATCH and its input type resolves to a message with a non-empty field
\* list; GET and DELETE methods (and unbound ones) carry no body.
C16_BodyIffVerbAndFields ==
    \A k \in DOMAIN rendered :
        LET r == rendered[k]
            lines == BlockLines(r)
            expected == r.method.http_method \in VerbsWithBody /\ InputHasFields(r)
        IN /\ CurlHasBody(lines) = expected
           /\ (RequestBodyAt(lines) # 0) = expected
           /\ r.method.http_method \in {"GET", "DELETE", ""} =>
                ~CurlHasBody(lines) /\ RequestBodyAt(lines) = 0

\* a PATCH method whose request declares fields was rendered with its body
\* in both tabs
C16_Witness ==
    /\ \E k \in DOMAIN rendered :
          /\ rendered[k].method.http_method = "PATCH"
          /\ InputHasFields(rendered[k])
          /\ CurlHasBody(BlockLines(rendered[k]))
          /\ RequestBodyAt(BlockLines(rendered[k])) # 0

\* a POST method whose request has an empty field list was rendered
C16_EmptyFieldList ==
    \E k \in DOMAIN rendered :
        /\ rendered[k].method.http_method = "POST"
        /\ DictHas(messages, rendered[k].method.input_type)
        /\ ~InputHasFields(rendered[k])
        /\ ~CurlHasBody(BlockLines(rendered[k]))

\* a DELETE method whose request declares fields was rendered
C16_DeleteWithFields ==
    \E k \in DOMAIN rendered :
        /\ rendered[k].method.http_method = "DELETE"
        /\ InputHasFields(rendered[k])
        /\ RequestBodyAt(BlockLines(rendered[k])) = 0

\* a POST method whose request declares deprecated fields only was
\* rendered: the body is the empty object
C16_AllFieldsDeprecated ==
    \E k \in DOMAIN rendered :
        /\ rendered[k].method.http_method = "POST"
        /\ InputHasFields(rendered[k])
        /\ UnflaggedNames(DictGet(messages, rendered[k].method.input_type)) = <<>>
        /\ BlockLines(rendered[k])[RequestBodyAt(BlockLines(rendered[k]))] = <<"{}">>

-----------------------------------------------------------------------------
(* The layout of the curl command *)

\* the lines of the curl command as the curl tab displays them
CurlDisplayLines(r) ==
    LET lines == BlockLines(r)
        c == LineBeginning(lines, "<pre><code id=\"curl-code-")
        e == LineAfter(lines, c, <<"</code></pre>">>)
    IN SubSeq(lines, c + 1, e - 1)

\* the method has a curl tab
HasCurlTab(r) == LineBeginning(BlockLines(r), "<pre><code id=\"curl-code-") # 0

\* every line but the last ends with the continuation mark
BackslashContinued(ls) ==
    /\ Len(ls) > 1
    /\ \A i \in 1 .. Len(ls) - 1 : ls[i][Len(ls[i])] = " \\"
    /\ ls[Len(ls)][Len(ls[Len(ls)])] # " \\"

\* C17 (as claimed): the curl command is one line when the request is a GET
\* (no -X flag and no -d body) and a backslash-continued multi-line command
\* in every other case.
C17_OneLineWhenMinimal ==
    \A k \in DOMAIN rendered :
        HasCurlTab(rendered[k]) =>
            IF rendered[k].method.http_method = "GET"
              THEN Len(CurlDisplayLines(rendered[k])) = 1
              ELSE BackslashContinued(CurlDisplayLines(rendered[k]))

\* What the code does: the command of every method, GET included, is
\* backslash-continued over at least four lines.
C17_AlwaysMultiLine ==
    \A k \in DOMAIN rendered :
        HasCurlTab(rendered[k]) =>
            /\ BackslashContinued(CurlDisplayLines(rendered[k]))
            /\ Len(CurlDisplayLines(rendered[k])) >= 4

\* a GET method was rendered with a command of four lines
C17_GetOnFourLines ==
    \E k \in DOMAIN rendered :
        /\ rendered[k].method.http_method = "GET"
        /\ HasCurlTab(rendered[k])
        /\ Len(CurlDisplayLines(rendered[k])) = 4

-----------------------------------------------------------------------------
(* Nested example objects *)

\* the keys of the objects one level below the top level of a JSON line:
\* the strings that begin a line indented by two levels
NestedKeys(line) ==
    LET at == { i \in DOMAIN line :
                  /\ line[i] \in {"\n", ",\n"}
                  /\ i + 4 <= Len(line)
                  /\ line[i + 1] = "  "
                  /\ line[i + 2] = "  "
                  /\ line[i + 3] = "&quot;" }
    IN [n \in 1 .. Cardinality(at) |->
          StringOf(HtmlUnescapeChars(Chars(line[Nth(at, n) + 4])))]

\* the body shows one field that rule (6) gives a nested object of the
\* message its type resolves to
NestedBodyShown(r) ==
    /\ OneFieldBodyShown(r)
    /\ BodyField(r).label = ""
    /\ FirstRule(BodyField(r)) = 6
    /\ Resolves(messages, BodyField(r).type)

\* the message the field's type resolves to
NestedMessage(r) == ResolveTypeReference(BodyField(r).type)

\* the first n elements of a sequence, all of them when it is shorter
FirstN(s, n) == SubSeq(s, 1, IF Len(s) < n THEN Len(s) ELSE n)

\* C18 (as claimed): the keys of the nested object of a field whose type
\* resolves to the message M are the names of the first three non-deprecated
\* fields of M in declaration order (all when there are fewer), however
\* many deprecated fields precede them.
C18_FirstThreeNonDeprecated ==
    \A k \in DOMAIN rendered :
        NestedBodyShown(rendered[k]) =>
            NestedKeys(BlockLines(rendered[k])[RequestBodyAt(BlockLines(rendered[k]))])
              = FirstN(UnflaggedNames(NestedMessage(rendered[k])), 3)

\* the names of the first three declared fields that are not deprecated
UnflaggedOfFirstThree(message) ==
    LET kept == SelectSeq(FirstN(DeclaredFields(message), 3),
                          LAMBDA fd : ~FlaggedDeprecated(fd))
    IN [i \in DOMAIN kept |-> kept[i].name]

\* What the code does: the keys are the non-deprecated ones among the first
\* three declared fields of M.
C18_NonDeprecatedOfFirstThree ==
    \A k \in DOMAIN rendered :
        NestedBodyShown(rendered[k]) =>
            NestedKeys(BlockLines(rendered[k])[RequestBodyAt(BlockLines(rendered[k]))])
              = UnflaggedOfFirstThree(NestedMessage(rendered[k]))

\* a nested object of a message whose first field is deprecated and whose
\* other three are not: two keys
C18_DeprecatedFirstField ==
    \E k \in DOMAIN rendered :
        /\ NestedBodyShown(rendered[k])
        /\ UnflaggedNames(NestedMessage(rendered[k])) = <<"y", "z", "w">>
        /\ NestedKeys(BlockLines(rendered[k])[RequestBodyAt(BlockLines(rendered[k]))])
             = <<"y", "z">>

\* a member of an object one level below the top level has an object as
\* its value
ObjectInsideNested(line) ==
    \E i \in DOMAIN line :
        /\ line[i] \in {"\n", ",\n"}
        /\ i + 7 <= Len(line)
        /\ line[i + 1] = "  "
        /\ line[i + 2] = "  "
        /\ line[i + 3] = "&quot;"
        /\ line[i + 6] = ": "
        /\ line[i + 7] \in {"{", "{}"}

\* the example lines of a block: the request body and the example response
ExampleLines(r) ==
    LET lines == BlockLines(r)
    IN (IF RequestBodyAt(lines) # 0 THEN {lines[RequestBodyAt(lines)]} ELSE {})
       \cup (IF ResponsePaneAt(lines) # 0 THEN {ResponseJsonLine(r)} ELSE {})

\* C19 (as claimed): in every generated example, the values inside the
\* nested object of an expandable field are never themselves objects:
\* nesting is at most one level below the top-level message.
C19_NoObjectInsideNested ==
    \A k \in DOMAIN rendered :
        \A line \in ExampleLines(rendered[k]) : ~ObjectInsideNested(line)

\* What the code does: a member of the nested object whose own type
\* resolves to a message, and whose name no earlier rule catches, is an
\* object again.
C19_NestedFieldExpandedAgain ==
    \A k \in DOMAIN rendered :
        NestedBodyShown(rendered[k]) =>
            (ObjectInsideNested(BlockLines(rendered[k])[RequestBodyAt(BlockLines(rendered[k]))])
               <=> \E i \in DOMAIN FirstN(DeclaredFields(NestedMessage(rendered[k])), 3) :
                      LET fd == DeclaredFields(NestedMessage(rendered[k]))[i]
                      IN /\ ~FlaggedDeprecated(fd)
                         /\ FirstRule(fd) = 6
                         /\ Resolves(messages, fd.type))

\* a request whose field of type A was rendered with A's field of type B as
\* an object of its own
C19_TwoLevelsBelow ==
    \E k \in DOMAIN rendered :
        /\ NestedBodyShown(rendered[k])
        /\ NestedKeys(BlockLines(rendered[k])[RequestBodyAt(BlockLines(rendered[k]))])
             = <<"x", "y", "z">>
        /\ ObjectInsideNested(BlockLines(rendered[k])[RequestBodyAt(BlockLines(rendered[k]))])
-----------------------------------------------------------------------------
(* Properties of main *)

\* the registry is complete and --service names a service it does not hold
UnknownServiceAsked ==
    /\ repo_pc = "done"
    /\ args_service # ""
    /\ ~DictHas(services, Simple(args_service))

\* the process has ended with a status other than 0
ExitedWithFailure == main_pc = "exit" /\ exit_status # <<>> /\ exit_status[1] # 0

\* nothing of the document was produced and no file was written
NothingGenerated ==
    /\ output_files = EmptyDict
    /\ doc = <<>>
    /\ rendered = <<>>
    /\ graph_pc = "ready"
    /\ render_pc = "ready"

\* C11: on every run where --service names a service that is not in the
\* registry, no output file is written at any point of the run (generation
\* is not even begun), the one step the run takes after the registry is
\* complete ends the process, and the status it ends with is not 0.
C11_UnknownServiceIsFatal ==
    /\ [](UnknownServiceAsked =>
            /\ NothingGenerated
            /\ main_pc \in {"filter", "exit"}
            /\ main_pc = "exit" => ExitedWithFailure)
    /\ [][UnknownServiceAsked => ExitedWithFailure' /\ NothingGenerated']_vars

\* a run asked for a service the registry, which holds services, does not
\* hold: it ended with status 1, the error printed, no file written
C11_Witness ==
    /\ UnknownServiceAsked
    /\ services # EmptyDict
    /\ ExitedWithFailure
    /\ exit_status = <<1>>
    /\ console = ServiceNotFound(args_service)
    /\ output_files = EmptyDict

\* a run without the error wrote the document and ended with status 0
C11_FileWritten ==
    /\ main_pc = "exit"
    /\ exit_status = <<0>>
    /\ DictHas(output_files, OutputPath)
    /\ DictGet(output_files, OutputPath) = doc
    /\ doc # <<>>

-----------------------------------------------------------------------------
(* C24 *)

\* the lines of the document of n pieces that begin with the piece
LinesLike(n, piece) ==
    { doc[i] : i \in { j \in DOMAIN doc : Len(doc[j]) = n /\ doc[j][1] = piece } }

\* the names of the Services navigation entries and of the service sections
NavServices ==
    { line[4] : line \in { l \in LinesLike(5, "<a href=\"#") : l[3] = "\" class=\"nav-link\">" } }

SectionServices == { line[4] : line \in LinesLike(5, "<h2 id=\"") }

\* the names of the Types navigation entries and of the appendix entries
TypesNavNames == { line[4] : line \in LinesLike(5, "<a href=\"#ref-") }

AppendixNames == { line[5] : line \in LinesLike(6, "<h4 id=\"") }

\* the input and output types of the rpcs the schema files declare for the
\* service of that name
DeclaredSignatureTypes(service) ==
    UNION { UNION { { b.rpcs[k].input, b.rpcs[k].output } : k \in DOMAIN b.rpcs } :
            b \in { d \in UNION { Range(fs[p].decls) : p \in DOMAIN fs } :
                      d.kind = "service" /\ d.name = service } }

\* the type names reached from the type names by following the fields of
\* the messages they resolve to, at most d times
RECURSIVE ReachedFrom(_, _)
ReachedFrom(types, d) ==
    IF d = 0 THEN types
    ELSE ReachedFrom(
           types \cup FollowedTypes({ ResolveTypeReference(t) :
                                        t \in { u \in types : Resolves(messages, u) } }),
           d - 1)

\* the simple names of the types reachable from the signatures of the service
ReachableNames(service) ==
    { LastSegment(t) : t \in ReachedFrom(DeclaredSignatureTypes(service), Len(messages)) }

\* --service names a service of the registry and main is past the filter
FilterApplied ==
    /\ args_service # ""
    /\ main_pc # "filter"
    /\ exit_status # <<1>>

\* C24: nothing is rendered and no reference graph is started before the
\* filter step; once a valid --service has passed it, the registry holds
\* that service alone, the document's Services navigation and sections name
\* no other service (and name it once they are written), and the reference
\* graph, the Types navigation and the appendix hold only types reachable
\* from the signatures of that service's rpcs.
C24_FilteredBeforeRendering ==
    /\ main_pc = "filter" =>
         /\ doc = <<>>
         /\ graph_pc = "ready"
         /\ referenced_types_cache = NoCache
    /\ FilterApplied =>
         /\ DictKeys(services) = {Simple(args_service)}
         /\ NavServices \subseteq {args_service}
         /\ SectionServices \subseteq {args_service}
         /\ \A i \in DOMAIN rendered : rendered[i].service = Simple(args_service)
         /\ render_pc \in {"types", "footer", "done"} =>
              /\ NavServices = {args_service}
              /\ SectionServices = {args_service}
         /\ { LastSegment(k) : k \in DictKeys(referenced_types) }
              \subseteq ReachableNames(args_service)
         /\ TypesNavNames \cup AppendixNames \subseteq ReachableNames(args_service)

\* the document for --service Items is complete: it names the item service
\* alone, its Types navigation and appendix hold A and C, and B, which only
\* the greeter's reply refers to, is in neither
C24_Witness ==
    /\ args_service = "Items"
    /\ render_pc = "done"
    /\ NavServices = {"Items"}
    /\ SectionServices = {"Items"}
    /\ TypesNavNames = {"A", "C"}
    /\ AppendixNames = {"A", "C"}
    /\ "B" \in ReachableNames("Greeter")
    /\ "B" \notin ReachableNames("Items")

-----------------------------------------------------------------------------
(* C26 *)

\* the lines of the Types navigation and the heading lines of the appendix
\* that name the simple name
TypesNavLines(simple) ==
    { i \in DOMAIN doc : /\ Len(doc[i]) = 5
                         /\ doc[i][1] = "<a href=\"#ref-"
                         /\ doc[i][4] = simple }

AppendixHeadings(simple) ==
    { i \in DOMAIN doc : /\ Len(doc[i]) = 6
                         /\ doc[i][1] = "<h4 id=\""
                         /\ doc[i][5] = simple }

\* the simple names that several type names of the reference graph share
SharedSimpleNames ==
    { s \in { LastSegment(k) : k \in DictKeys(CachedTypes) } :
        Cardinality({ k \in DictKeys(CachedTypes) : LastSegment(k) = s }) > 1 }

\* the first of the items that has the simple name
FirstWithName(items, simple) ==
    items[MinOf({ i \in DOMAIN items : items[i].simple = simple })]

\* the appendix entry under the heading at line i is the entry of the item:
\* its package line and the table of its entity
DocumentsItem(i, item) ==
    /\ i - 2 + Len(TypeEntry(item)) <= Len(doc)
    /\ SubSeq(doc, i - 1, i - 2 + Len(TypeEntry(item))) = TypeEntry(item)

C26_FirstOfGroupedDocumented ==
    render_pc = "done" =>
        \A s \in SharedSimpleNames :
            /\ Cardinality(TypesNavLines(s)) = 1
            /\ Cardinality(AppendixHeadings(s)) = 1
            /\ \A i \in AppendixHeadings(s) :
                   DocumentsItem(i, FirstWithName(GroupedItems(CachedTypes), s))
            /\ \A j, k \in DOMAIN CachedTypes :
                   LastSegment(CachedTypes[j].k) = s /\ LastSegment(CachedTypes[k].k) = s
                     => CachedTypes[j].v.entity = CachedTypes[k].v.entity

\* the graph gained other.v1.B, then more.v1.K, then other.v1.K; the
\* appendix entry of K is the one of other.v1.K and names package other.v1
C26_LaterItemDocumented ==
    /\ render_pc = "done"
    /\ Len(CachedTypes) = 3
    /\ CachedTypes[1].k = Other("B")
    /\ CachedTypes[2].k = More("K")
    /\ CachedTypes[3].k = Other("K")
    /\ \A i \in AppendixHeadings("K") :
           /\ DocumentsItem(i, GraphItems(CachedTypes)[3])
           /\ ~DocumentsItem(i, GraphItems(CachedTypes)[2])
           /\ doc[i + 3] = <<"<p><em>From package:</em> <code>", "other", ".", "v1", "</code></p>">>

\* two type names share a simple name, lie in one package group, and the
\* first added is the one documented
C26_FirstAddedWhenGrouped ==
    /\ render_pc = "done"
    /\ SharedSimpleNames # {}
    /\ \A s \in SharedSimpleNames : \A i \in AppendixHeadings(s) :
           DocumentsItem(i, FirstWithName(GraphItems(CachedTypes), s))

-----------------------------------------------------------------------------
(* C27 *)

\* the messages whose fields the example of the fields goes on into
NestedTargets(fields) ==
    { ResolveTypeReference(fields[i].type) :
        i \in { j \in DOMAIN fields : ~fields[j].is_deprecated /\ Descends(fields[j]) } }

\* the messages reached from the messages by nesting, at most n times
RECURSIVE NestedClosure(_, _)
NestedClosure(msgs, n) ==
    IF n = 0 THEN msgs
    ELSE NestedClosure(msgs \cup UNION { NestedTargets(NestedFields(m)) : m \in msgs }, n - 1)

\* the example of the message leads into a message whose own example leads
\* back into it
LeadsIntoCycle(message) ==
    \E m \in NestedClosure(NestedTargets(message.fields), Len(messages)) :
        m \in NestedClosure(NestedTargets(NestedFields(m)), Len(messages))

\* C27 (as claimed): a call of _generate_example_json returns a result; it
\* does not end in an exception, whatever the messages of the registry
\* refer to.
C27_ExampleReturns == example_pc # "raised"

\* What the code does: the call ends in RecursionError exactly for a
\* message whose example leads into a cycle of messages; for every other
\* message it returns, and the text returned is the one of the recursive
\* definition.
C27_RaisesExactlyOnCycle ==
    /\ example_pc = "raised" => LeadsIntoCycle(example_message[1])
    /\ example_pc = "returned" =>
         /\ ~LeadsIntoCycle(example_message[1])
         /\ example_result = GenerateExampleJson(example_message[1])
    /\ example_pc = "run" /\ LeadsIntoCycle(example_message[1]) =>
         FrameDepth(example_stack) <= MaxFrames

\* A has a field of type B and B a field of type A: the call for A ended in
\* RecursionError
C27_MutualCycleRaises ==
    /\ example_pc = "raised"
    /\ example_message[1].name = "A"
    /\ \E i \in DOMAIN example_message[1].fields :
           /\ example_message[1].fields[i].type = Other("B")
           /\ \E j \in DOMAIN DictGet(messages, Other("B")).fields :
                  DictGet(messages, Other("B")).fields[j].type = Other("A")

\* A has a field of its own type: the call for A ended in RecursionError
C27_SelfReferenceRaises ==
    /\ example_pc = "raised"
    /\ example_message[1].name = "A"
    /\ \E i \in DOMAIN example_message[1].fields :
           example_message[1].fields[i].type = Other("A")

\* the call for the request, whose field leads through A and B to C,
\* returned
C27_NestedReturned ==
    /\ example_pc = "returned"
    /\ example_message[1].name = "Req"
    /\ NestedTargets(example_message[1].fields) # {}

-----------------------------------------------------------------------------
(* C28 *)

\* the ids the tab buttons of the lines target, and the ids of the tab
\* panes of the lines, as <<kind, method id>>
ButtonTargets(lines) ==
    { <<"curl", lines[i][4]>> :
        i \in { j \in DOMAIN lines : /\ Len(lines[j]) = 5
                                     /\ lines[j][1] = "<button class=\"tab-button "
                                     /\ lines[j][3] = "\" data-tab=\"curl-" } }
    \cup { <<"http", lines[i][2]>> :
        i \in { j \in DOMAIN lines :
                  /\ Len(lines[j]) = 3
                  /\ lines[j][1] = "<button class=\"tab-button\" data-tab=\"http-" } }
    \cup { <<"response", lines[i][4]>> :
        i \in { j \in DOMAIN lines : /\ Len(lines[j]) = 5
                                     /\ lines[j][1] = "<button class=\"tab-button "
                                     /\ lines[j][3] = "\" data-tab=\"response-" } }

PaneIds(lines) ==
    { <<"curl", lines[i][4]>> :
        i \in { j \in DOMAIN lines : /\ Len(lines[j]) = 5
                                     /\ lines[j][1] = "<div class=\"tab-pane "
                                     /\ lines[j][3] = "\" id=\"curl-" } }
    \cup { <<"http", lines[i][2]>> :
        i \in { j \in DOMAIN lines : /\ Len(lines[j]) = 3
                                     /\ lines[j][1] = "<div class=\"tab-pane\" id=\"http-" } }
    \cup { <<"response", lines[i][4]>> :
        i \in { j \in DOMAIN lines : /\ Len(lines[j]) = 5
                                     /\ lines[j][1] = "<div class=\"tab-pane "
                                     /\ lines[j][3] = "\" id=\"response-" } }

\* the panes of the lines that are marked active
ActivePanes(lines) ==
    { i \in DOMAIN lines : /\ Len(lines[i]) = 5
                           /\ lines[i][1] = "<div class=\"tab-pane "
                           /\ lines[i][2] = "active" }

\* C28 (as claimed): in the examples block of every rendered method each
\* tab button targets the id of a tab pane of the block, and a block with a
\* button has exactly one pane marked active.
C28_ButtonsHavePanes ==
    \A i \in DOMAIN rendered :
        LET lines == BlockLines(rendered[i]) IN
        /\ ButtonTargets(lines) \subseteq PaneIds(lines)
        /\ ButtonTargets(lines) # {} => Cardinality(ActivePanes(lines)) = 1

\* What the code does: the curl and HTTP buttons have their panes; the
\* Response button is there for every method, its pane only when the output
\* type is a key of the registry's messages; no pane is active when the
\* method has neither a binding nor such an output type, and never more
\* than one is.
C28_ResponsePaneNeedsMessage ==
    \A i \in DOMAIN rendered :
        LET lines == BlockLines(rendered[i])
            id == LowerOf(rendered[i].method.name)
            has_http == rendered[i].method.http_method # "" /\ rendered[i].method.http_path # ""
            has_output == DictHas(messages, rendered[i].method.output_type)
        IN /\ ButtonTargets(lines) =
                (IF has_http THEN {<<"curl", id>>, <<"http", id>>} ELSE {})
                  \cup {<<"response", id>>}
           /\ PaneIds(lines) =
                (IF has_http THEN {<<"curl", id>>, <<"http", id>>} ELSE {})
                  \cup (IF has_output THEN {<<"response", id>>} ELSE {})
           /\ Cardinality(ActivePanes(lines)) = (IF has_http \/ has_output THEN 1 ELSE 0)

\* a method without a binding whose output type nothing declares: the
\* Response button, marked active, is the only button, and the block has no
\* pane at all
C28_ActiveButtonNoPane ==
    \E i \in DOMAIN rendered :
        /\ ButtonTargets(BlockLines(rendered[i]))
             = {<<"response", LowerOf(rendered[i].method.name)>>}
        /\ PaneIds(BlockLines(rendered[i])) = {}
        /\ ActivePanes(BlockLines(rendered[i])) = {}

\* a bound method whose output type nothing declares: three buttons, the
\* curl and HTTP panes, no Response pane
C28_ResponseButtonNoPane ==
    \E i \in DOMAIN rendered :
        LET lines == BlockLines(rendered[i])
            id == LowerOf(rendered[i].method.name)
        IN /\ ButtonTargets(lines) = {<<"curl", id>>, <<"http", id>>, <<"response", id>>}
           /\ PaneIds(lines) = {<<"curl", id>>, <<"http", id>>}
           /\ Cardinality(ActivePanes(lines)) = 1

\* a method whose output type is declared: every button has its pane
C28_AllPanesThere ==
    \E i \in DOMAIN rendered :
        /\ Cardinality(ButtonTargets(BlockLines(rendered[i]))) = 3
        /\ ButtonTargets(BlockLines(rendered[i])) = PaneIds(BlockLines(rendered[i]))

====
